---- MODULE Spec2Model ----
(***************************************************************************)
(* Model of the Jira MCP server (src/src/index.ts).                        *)
(*                                                                         *)
(*   - convertToADF: the plain-text to Atlassian-Document-Format           *)
(*     converter, as the line loop of the source, one action per branch.   *)
(*   - the CallToolRequestSchema handler: the tool dispatcher, one action  *)
(*     per synchronous stretch of the async handler (from the request, or  *)
(*     from the completion of an awaited tracker-client call, up to the    *)
(*     next await or to the end of the invocation).                        *)
(*                                                                         *)
(* JavaScript strings that the converter inspects are sequences of         *)
(* one-character strings; all other strings are TLA+ strings.              *)
(***************************************************************************)
EXTENDS Integers, Sequences, FiniteSets, TLC

VARIABLES
    \* ---- convertToADF (index.ts:166-273)
    text,             \* the parameter `text`
    lines,            \* const lines = text.split("\n")
    i,                \* the loop counter (0-based, as in the source)
    content,          \* const content: any[]
    currentList,      \* reference to the open list node: its position in content, 0 = null
    currentListType,  \* "bullet" | "ordered" | "null"
    adfpc,            \* "off" | "loop" | "returned"
    origin,           \* history: for each node of content, the indexes i of the lines pushed into it
    \* ---- CallToolRequestSchema handler (index.ts:641-994), per invocation
    pc,               \* "idle" | "awaiting" | "done"
    request,          \* request.params: [name, arguments]
    pending,          \* the tracker-client call the handler is suspended on
    calls,            \* the tracker-client calls issued so far, in order
    updateFields,     \* update_issue's local updateFields map
    outcome,          \* how the handler ended: a returned envelope or a thrown error
    raised,           \* history: the error thrown inside the try block, if any
    replies           \* history: how each call of `calls` settled, in order

adfvars == <<text, lines, i, content, currentList, currentListType, adfpc, origin>>
srvvars == <<pc, request, pending, calls, updateFields, outcome, raised, replies>>
vars == <<text, lines, i, content, currentList, currentListType, adfpc, origin,
          pc, request, pending, calls, updateFields, outcome, raised, replies>>

(***************************************************************************)
(* Bounds of the model.                                                    *)
(***************************************************************************)
\* greatest number of lines of an input text of the converter
MaxLines == 4
\* number of invocation slots of the dispatcher
NumInv == 2

(***************************************************************************)
(* JavaScript string primitives on character sequences.                    *)
(***************************************************************************)
\* the characters String.prototype.trim and the regex class \s treat as white
\* space: space, tab, line feed, vertical tab, form feed, carriage return,
\* U+00A0, U+1680 and U+FEFF (the space separators U+2000..U+200A, U+202F,
\* U+205F, U+3000 and the line separators U+2028, U+2029 belong to the class
\* too, but cannot be written in a string of this module)
IsWhiteSpace(c) ==
    c \in {" ", "\t", "\n", "", "\f", "\r", " ", " ", "﻿"}

\* the regex class \d
IsDigit(c) == c \in {"0", "1", "2", "3", "4", "5", "6", "7", "8", "9"}

RECURSIVE trimStart(_)
trimStart(s) ==
    IF s # <<>> /\ IsWhiteSpace(Head(s)) THEN trimStart(Tail(s)) ELSE s

RECURSIVE trimEnd(_)
trimEnd(s) ==
    IF s # <<>> /\ IsWhiteSpace(s[Len(s)])
    THEN trimEnd(SubSeq(s, 1, Len(s) - 1))
    ELSE s

\* String.prototype.trim
trim(s) == trimEnd(trimStart(s))

\* String.prototype.startsWith
startsWith(s, p) == Len(s) >= Len(p) /\ SubSeq(s, 1, Len(p)) = p

\* String.prototype.endsWith
endsWith(s, p) == Len(s) >= Len(p) /\ SubSeq(s, Len(s) - Len(p) + 1, Len(s)) = p

\* String.prototype.substring(n)
substring(s, n) == SubSeq(s, n + 1, Len(s))

\* text.split("\n"): the pieces between the newlines, always at least one
RECURSIVE splitFrom(_, _)
splitFrom(s, cur) ==
    IF s = <<>> THEN <<cur>>
    ELSE IF Head(s) = "\n" THEN <<cur>> \o splitFrom(Tail(s), <<>>)
    ELSE splitFrom(Tail(s), Append(cur, Head(s)))

split(s) == splitFrom(s, <<>>)

\* number of leading characters of s in the class \d
RECURSIVE DigitRun(_)
DigitRun(s) ==
    IF s # <<>> /\ IsDigit(Head(s)) THEN 1 + DigitRun(Tail(s)) ELSE 0

\* length of the match of /^\d+\.\s/ at the start of s, 0 when it does not match
OrderedPrefixLen(s) ==
    LET d == DigitRun(s) IN
    IF d >= 1 /\ Len(s) >= d + 2 /\ s[d + 1] = "." /\ IsWhiteSpace(s[d + 2])
    THEN d + 2
    ELSE 0

\* /^\d+\.\s/.test(s)
OrderedTest(s) == OrderedPrefixLen(s) > 0

\* s.replace(/^\d+\.\s/, "")
OrderedStrip(s) == substring(s, OrderedPrefixLen(s))

(***************************************************************************)
(* convertToADF: the document nodes it builds.                             *)
(***************************************************************************)
TextNode(t) == [type |-> "text", text |-> t]

ParagraphNode(t) == [type |-> "paragraph", content |-> <<TextNode(t)>>]

ListItemNode(t) == [type |-> "listItem", content |-> <<ParagraphNode(t)>>]

HeadingLevel == 3

HeadingNode(t) ==
    [type |-> "heading", attrs |-> [level |-> HeadingLevel], content |-> <<TextNode(t)>>]

BulletListNode == [type |-> "bulletList", content |-> <<>>]

OrderedListNode == [type |-> "orderedList", content |-> <<>>]

(***************************************************************************)
(* convertToADF: the loop body, as a function of the loop state            *)
(* st = [content, currentList, currentListType] and of the lines.          *)
(***************************************************************************)
\* const line = lines[i]
LineAt(ls, k) == ls[k + 1]

\* const nextLine = lines[i + 1] || ""
NextLineAt(ls, k) == IF k + 2 <= Len(ls) THEN ls[k + 2] ELSE <<>>

IsBlankLine(line) == trim(line) = <<>>

IsBulletLine(line) == startsWith(trim(line), <<"-", " ">>)

IsOrderedLine(line) == OrderedTest(trim(line))

\* faulty variant: the look-ahead at the next line is dropped
IsHeadingLineNoLookAhead(line, nextLine) == endsWith(trim(line), <<":">>)

IsHeadingLine(line, nextLine) ==
    endsWith(trim(line), <<":">>) /\ trim(nextLine) = <<>>

\* faulty variant: the heading test is made before the list tests
BranchHeadingFirst(line, nextLine) ==
    IF IsBlankLine(line) THEN "blank"
    ELSE IF IsHeadingLine(line, nextLine) THEN "heading"
    ELSE IF IsBulletLine(line) THEN "bullet"
    ELSE IF IsOrderedLine(line) THEN "ordered"
    ELSE "paragraph"

\* which branch of the loop body the line takes (the first whose test holds)
Branch(line, nextLine) ==
    IF IsBlankLine(line) THEN "blank"
    ELSE IF IsBulletLine(line) THEN "bullet"
    ELSE IF IsOrderedLine(line) THEN "ordered"
    ELSE IF IsHeadingLine(line, nextLine) THEN "heading"
    ELSE "paragraph"

\* currentList.content.push(item): the open list node is the one at st.currentList
PushItem(st, item) ==
    [st EXCEPT !.content[st.currentList].content = Append(@, item)]

\* faulty variant: a new list node is opened for every item
OpenListAlways(st, kind, node) ==
    [content |-> Append(st.content, node),
     currentList |-> Len(st.content) + 1,
     currentListType |-> kind]

\* the branch "if (currentListType !== kind) { currentList = {...}; content.push(currentList) }"
OpenList(st, kind, node) ==
    IF st.currentListType # kind
    THEN [content |-> Append(st.content, node),
          currentList |-> Len(st.content) + 1,
          currentListType |-> kind]
    ELSE st

\* faulty variant: a blank line leaves the open list open
BlankStepKeepsList(st) == st

\* faulty variant: a blank line becomes an empty paragraph
BlankStepEmitsParagraph(st) ==
    [content |-> Append(st.content, ParagraphNode(<<>>)),
     currentList |-> 0,
     currentListType |-> "null"]

BlankStep(st) == [st EXCEPT !.currentList = 0, !.currentListType = "null"]

BulletStep(st, line) ==
    PushItem(OpenList(st, "bullet", BulletListNode),
             ListItemNode(substring(trim(line), 2)))

OrderedStep(st, line) ==
    PushItem(OpenList(st, "ordered", OrderedListNode),
             ListItemNode(OrderedStrip(trim(line))))

HeadingStep(st, line) ==
    [st EXCEPT !.content = Append(@, HeadingNode(trim(line)))]

ParagraphStep(st, line) ==
    [content |-> Append(st.content, ParagraphNode(line)),
     currentList |-> 0,
     currentListType |-> "null"]

\* one iteration of the for loop
LoopBody(st, ls, k) ==
    LET line == LineAt(ls, k)
        b == Branch(line, NextLineAt(ls, k))
    IN  CASE b = "blank" -> BlankStep(st)
          [] b = "bullet" -> BulletStep(st, line)
          [] b = "ordered" -> OrderedStep(st, line)
          [] b = "heading" -> HeadingStep(st, line)
          [] OTHER -> ParagraphStep(st, line)

LoopInit == [content |-> <<>>, currentList |-> 0, currentListType |-> "null"]

RECURSIVE LoopFrom(_, _, _)
LoopFrom(st, ls, k) ==
    IF k >= Len(ls) THEN st ELSE LoopFrom(LoopBody(st, ls, k), ls, k + 1)

\* the return value of convertToADF(text)
DocOf(c) == [version |-> 1, type |-> "doc", content |-> c]

convertToADF(t) == DocOf(LoopFrom(LoopInit, split(t), 0).content)

(***************************************************************************)
(* Input texts of the converter: up to MaxLines lines joined by "\n".      *)
(***************************************************************************)
SampleLines ==
    { <<>>,
      <<" ", "\f">>,
      <<"-", " ", "a">>,
      <<" ", "-", " ", "e", ":", " ">>,
      <<"3", ".", " ", "f", ":">>,
      <<"2", "0", ".", "\t", "d">>,
      <<"T", ":">>,
      <<" ", "U", ":", " ">>,
      <<"-", "g">>,
      <<"4", ".", "h">> }

RECURSIVE join(_)
join(ls) ==
    IF Len(ls) = 1 THEN ls[1] ELSE ls[1] \o <<"\n">> \o join(Tail(ls))

LineSeqs == UNION { [1..n -> SampleLines] : n \in 1..MaxLines }

Texts == { join(ls) : ls \in LineSeqs }

(***************************************************************************)
(* convertToADF as a state machine.                                        *)
(***************************************************************************)
AdfOff ==
    /\ text = <<>>
    /\ lines = <<>>
    /\ i = 0
    /\ content = <<>>
    /\ currentList = 0
    /\ currentListType = "null"
    /\ adfpc = "off"
    /\ origin = <<>>

\* entry of convertToADF: lines 167-170
AdfStart ==
    /\ text \in Texts
    /\ lines = split(text)
    /\ i = 0
    /\ content = <<>>
    /\ currentList = 0
    /\ currentListType = "null"
    /\ adfpc = "loop"
    /\ origin = <<>>

AdfState == [content |-> content, currentList |-> currentList,
             currentListType |-> currentListType]

AdfTake(b, st) ==
    /\ adfpc = "loop"
    /\ i < Len(lines)
    /\ Branch(LineAt(lines, i), NextLineAt(lines, i)) = b
    /\ content' = st.content
    /\ currentList' = st.currentList
    /\ currentListType' = st.currentListType
    /\ origin' = IF st.content = content THEN origin
                  ELSE IF Len(st.content) > Len(content) THEN Append(origin, <<i>>)
                  ELSE [origin EXCEPT ![st.currentList] = Append(@, i)]
    /\ i' = i + 1
    /\ UNCHANGED <<text, lines, adfpc>>

BlankLine == AdfTake("blank", BlankStep(AdfState)) /\ UNCHANGED srvvars

BulletLine ==
    AdfTake("bullet", BulletStep(AdfState, LineAt(lines, i))) /\ UNCHANGED srvvars

OrderedLine ==
    AdfTake("ordered", OrderedStep(AdfState, LineAt(lines, i))) /\ UNCHANGED srvvars

HeadingLine ==
    AdfTake("heading", HeadingStep(AdfState, LineAt(lines, i))) /\ UNCHANGED srvvars

ParagraphLine ==
    AdfTake("paragraph", ParagraphStep(AdfState, LineAt(lines, i))) /\ UNCHANGED srvvars

\* loop exit and the return statement, lines 268-272
AdfReturn ==
    /\ adfpc = "loop"
    /\ i >= Len(lines)
    /\ adfpc' = "returned"
    /\ UNCHANGED <<text, lines, i, content, currentList, currentListType, origin>>
    /\ UNCHANGED srvvars


(***************************************************************************)
(* JavaScript values of the dispatcher.  A value is a record [t, s]: its   *)
(* typeof-like tag, for a string or a number its string form s, and for an *)
(* array its elements a.  The description texts are [t, s] with s a        *)
(* character sequence, because convertToADF reads them.                    *)
(***************************************************************************)
Undef == [t |-> "undefined", s |-> "", a |-> <<>>]

Null == [t |-> "null", s |-> "", a |-> <<>>]

Str(x) == [t |-> "string", s |-> x, a |-> <<>>]

Num(x) == [t |-> "number", s |-> x, a |-> <<>>]

Arr(x) == [t |-> "array", s |-> "", a |-> x]

\* ToBoolean(v), as in "if (args.summary)" and "a || b"
Truthy(v) ==
    CASE v.t = "undefined" -> FALSE
      [] v.t = "null" -> FALSE
      [] v.t = "string" -> v.s # ""
      [] v.t = "number" -> v.s # "0"
      [] OTHER -> TRUE

\* typeof v !== "string" || v.length === 0
NotNonEmptyString(v) == v.t # "string" \/ v.s = ""

\* the values of a description
UndefText == [t |-> "undefined", s |-> <<>>]

StrText(cs) == [t |-> "string", s |-> cs]

NumText(cs) == [t |-> "number", s |-> cs]

TruthyText(v) ==
    CASE v.t = "undefined" -> FALSE
      [] v.t = "string" -> v.s # <<>>
      [] OTHER -> v.s # <<"0">>

\* the simple lower-case mappings of the Unicode character database, from
\* strings "Xx" of a character and its lower-case form: one for every
\* character that a string of this module can hold and that has a lower-case
\* form. A string of this module holds the characters below U+0100 and, of
\* the others, those whose low byte is 0x80 or more; a lower-case form
\* outside that set is written by its code point, as in "U+0253" for the
\* lower-case form of U+0181. No lower-case text holds a capital U, so a
\* form written this way stands for its character and for nothing else.
LowerTable ==
    LET pairs ==
        { "Aa", "Bb", "Cc", "Dd", "Ee", "Ff", "Gg", "Hh", "Ii", "Jj",
          "Kk", "Ll", "Mm", "Nn", "Oo", "Pp", "Qq", "Rr", "Ss", "Tt",
          "Uu", "Vv", "Ww", "Xx", "Yy", "Zz", "Àà", "Áá", "Ââ", "Ãã",
          "Ää", "Åå", "Ææ", "Çç", "Èè", "Éé", "Êê", "Ëë", "Ìì", "Íí",
          "Îî", "Ïï", "Ðð", "Ññ", "Òò", "Óó", "Ôô", "Õõ", "Öö", "Øø",
          "Ùù", "Úú", "Ûû", "Üü", "Ýý", "Þþ", "ƁU+0253", "Ƃƃ", "Ƅƅ", "ƆU+0254",
          "Ƈƈ", "ƉU+0256", "ƊU+0257", "Ƌƌ", "Ǝǝ", "ƏU+0259", "ƐU+025B", "Ƒƒ", "ƓU+0260", "ƔU+0263",
          "ƖU+0269", "ƗU+0268", "Ƙƙ", "ƜU+026F", "ƝU+0272", "ƟU+0275", "Ơơ", "Ƣƣ", "Ƥƥ", "Ʀʀ",
          "Ƨƨ", "Ʃʃ", "Ƭƭ", "Ʈʈ", "Ưư", "Ʊʊ", "Ʋʋ", "Ƴƴ", "Ƶƶ", "Ʒʒ",
          "Ƹƹ", "Ƽƽ", "Ǆǆ", "ǅǆ", "Ǉǉ", "ǈǉ", "Ǌǌ", "ǋǌ", "Ǎǎ", "Ǐǐ",
          "Ǒǒ", "Ǔǔ", "Ǖǖ", "Ǘǘ", "Ǚǚ", "Ǜǜ", "Ǟǟ", "Ǡǡ", "Ǣǣ", "Ǥǥ",
          "Ǧǧ", "Ǩǩ", "Ǫǫ", "Ǭǭ", "Ǯǯ", "Ǳǳ", "ǲǳ", "Ǵǵ", "Ƕƕ", "Ƿƿ",
          "Ǹǹ", "Ǻǻ", "Ǽǽ", "Ǿǿ", "Άά", "Έέ", "Ήή", "Ίί", "Όό", "Ύύ",
          "Ώώ", "Αα", "Ββ", "Γγ", "Δδ", "Εε", "Ζζ", "Ηη", "Θθ", "Ιι",
          "Κκ", "Λλ", "Μμ", "Νν", "Ξξ", "Οο", "Ππ", "Ρρ", "Σσ", "Ττ",
          "Υυ", "Φφ", "Χχ", "Ψψ", "Ωω", "Ϊϊ", "Ϋϋ", "Ϗϗ", "Ϙϙ", "Ϛϛ",
          "Ϝϝ", "Ϟϟ", "Ϡϡ", "Ϣϣ", "Ϥϥ", "Ϧϧ", "Ϩϩ", "Ϫϫ", "Ϭϭ", "Ϯϯ",
          "ϴθ", "Ϸϸ", "Ϲϲ", "Ϻϻ", "ϽU+037B", "ϾU+037C", "ϿU+037D", "Ҁҁ", "Ҋҋ", "Ҍҍ",
          "Ҏҏ", "Ґґ", "Ғғ", "Ҕҕ", "Җҗ", "Ҙҙ", "Ққ", "Ҝҝ", "Ҟҟ", "Ҡҡ",
          "Ңң", "Ҥҥ", "Ҧҧ", "Ҩҩ", "Ҫҫ", "Ҭҭ", "Үү", "Ұұ", "Ҳҳ", "Ҵҵ",
          "Ҷҷ", "Ҹҹ", "Һһ", "Ҽҽ", "Ҿҿ", "Ӏӏ", "Ӂӂ", "Ӄӄ", "Ӆӆ", "Ӈӈ",
          "Ӊӊ", "Ӌӌ", "Ӎӎ", "Ӑӑ", "Ӓӓ", "Ӕӕ", "Ӗӗ", "Әә", "Ӛӛ", "Ӝӝ",
          "Ӟӟ", "Ӡӡ", "Ӣӣ", "Ӥӥ", "Ӧӧ", "Өө", "Ӫӫ", "Ӭӭ", "Ӯӯ", "Ӱӱ",
          "Ӳӳ", "Ӵӵ", "Ӷӷ", "Ӹӹ", "Ӻӻ", "Ӽӽ", "Ӿӿ", "ႠU+2D00", "ႡU+2D01", "ႢU+2D02",
          "ႣU+2D03", "ႤU+2D04", "ႥU+2D05", "ႦU+2D06", "ႧU+2D07", "ႨU+2D08", "ႩU+2D09", "ႪU+2D0A", "ႫU+2D0B", "ႬU+2D0C",
          "ႭU+2D0D", "ႮU+2D0E", "ႯU+2D0F", "ႰU+2D10", "ႱU+2D11", "ႲU+2D12", "ႳU+2D13", "ႴU+2D14", "ႵU+2D15", "ႶU+2D16",
          "ႷU+2D17", "ႸU+2D18", "ႹU+2D19", "ႺU+2D1A", "ႻU+2D1B", "ႼU+2D1C", "ႽU+2D1D", "ႾU+2D1E", "ႿU+2D1F", "ჀU+2D20",
          "ჁU+2D21", "ჂU+2D22", "ჃU+2D23", "ჄU+2D24", "ჅU+2D25", "ჇU+2D27", "ჍU+2D2D", "ᎠU+AB70", "ᎡU+AB71", "ᎢU+AB72",
          "ᎣU+AB73", "ᎤU+AB74", "ᎥU+AB75", "ᎦU+AB76", "ᎧU+AB77", "ᎨU+AB78", "ᎩU+AB79", "ᎪU+AB7A", "ᎫU+AB7B", "ᎬU+AB7C",
          "ᎭU+AB7D", "ᎮU+AB7E", "ᎯU+AB7F", "Ꮀꮀ", "Ꮁꮁ", "Ꮂꮂ", "Ꮃꮃ", "Ꮄꮄ", "Ꮅꮅ", "Ꮆꮆ",
          "Ꮇꮇ", "Ꮈꮈ", "Ꮉꮉ", "Ꮊꮊ", "Ꮋꮋ", "Ꮌꮌ", "Ꮍꮍ", "Ꮎꮎ", "Ꮏꮏ", "Ꮐꮐ",
          "Ꮑꮑ", "Ꮒꮒ", "Ꮓꮓ", "Ꮔꮔ", "Ꮕꮕ", "Ꮖꮖ", "Ꮗꮗ", "Ꮘꮘ", "Ꮙꮙ", "Ꮚꮚ",
          "Ꮛꮛ", "Ꮜꮜ", "Ꮝꮝ", "Ꮞꮞ", "Ꮟꮟ", "Ꮠꮠ", "Ꮡꮡ", "Ꮢꮢ", "Ꮣꮣ", "Ꮤꮤ",
          "Ꮥꮥ", "Ꮦꮦ", "Ꮧꮧ", "Ꮨꮨ", "Ꮩꮩ", "Ꮪꮪ", "Ꮫꮫ", "Ꮬꮬ", "Ꮭꮭ", "Ꮮꮮ",
          "Ꮯꮯ", "Ꮰꮰ", "Ꮱꮱ", "Ꮲꮲ", "Ꮳꮳ", "Ꮴꮴ", "Ꮵꮵ", "Ꮶꮶ", "Ꮷꮷ", "Ꮸꮸ",
          "Ꮹꮹ", "Ꮺꮺ", "Ꮻꮻ", "Ꮼꮼ", "Ꮽꮽ", "Ꮾꮾ", "Ꮿꮿ", "Ᏸᏸ", "Ᏹᏹ", "Ᏺᏺ",
          "Ᏻᏻ", "Ᏼᏼ", "Ᏽᏽ", "Ᲊᲊ", "Აა", "Ბბ", "Გგ", "Დდ", "Ეე", "Ვვ",
          "Ზზ", "Თთ", "Იი", "Კკ", "Ლლ", "Მმ", "Ნნ", "Ოო", "Პპ", "Ჟჟ",
          "Რრ", "Სს", "Ტტ", "Უუ", "Ფფ", "Ქქ", "Ღღ", "Ყყ", "Შშ", "Ჩჩ",
          "Ცც", "Ძძ", "Წწ", "Ჭჭ", "Ხხ", "Ჯჯ", "Ჰჰ", "Ჱჱ", "Ჲჲ", "Ჳჳ",
          "Ჴჴ", "Ჵჵ", "Ჶჶ", "Ჷჷ", "Ჸჸ", "Ჹჹ", "Ჺჺ", "Ჽჽ", "Ჾჾ", "Ჿჿ",
          "Ẁẁ", "Ẃẃ", "Ẅẅ", "Ẇẇ", "Ẉẉ", "Ẋẋ", "Ẍẍ", "Ẏẏ", "Ẑẑ", "Ẓẓ",
          "Ẕẕ", "ẞß", "Ạạ", "Ảả", "Ấấ", "Ầầ", "Ẩẩ", "Ẫẫ", "Ậậ", "Ắắ",
          "Ằằ", "Ẳẳ", "Ẵẵ", "Ặặ", "Ẹẹ", "Ẻẻ", "Ẽẽ", "Ếế", "Ềề", "Ểể",
          "Ễễ", "Ệệ", "Ỉỉ", "Ịị", "Ọọ", "Ỏỏ", "Ốố", "Ồồ", "Ổổ", "Ỗỗ",
          "Ộộ", "Ớớ", "Ờờ", "Ởở", "Ỡỡ", "Ợợ", "Ụụ", "Ủủ", "Ứứ", "Ừừ",
          "Ửử", "Ữữ", "Ựự", "Ỳỳ", "Ỵỵ", "Ỷỷ", "Ỹỹ", "Ỻỻ", "Ỽỽ", "Ỿỿ",
          "ᾈᾀ", "ᾉᾁ", "ᾊᾂ", "ᾋᾃ", "ᾌᾄ", "ᾍᾅ", "ᾎᾆ", "ᾏᾇ", "ᾘᾐ", "ᾙᾑ",
          "ᾚᾒ", "ᾛᾓ", "ᾜᾔ", "ᾝᾕ", "ᾞᾖ", "ᾟᾗ", "ᾨᾠ", "ᾩᾡ", "ᾪᾢ", "ᾫᾣ",
          "ᾬᾤ", "ᾭᾥ", "ᾮᾦ", "ᾯᾧ", "Ᾰᾰ", "Ᾱᾱ", "ᾺU+1F70", "ΆU+1F71", "ᾼᾳ", "ῈU+1F72",
          "ΈU+1F73", "ῊU+1F74", "ΉU+1F75", "ῌῃ", "Ῐῐ", "Ῑῑ", "ῚU+1F76", "ΊU+1F77", "Ῠῠ", "Ῡῡ",
          "ῪU+1F7A", "ΎU+1F7B", "Ῥῥ", "ῸU+1F78", "ΌU+1F79", "ῺU+1F7C", "ΏU+1F7D", "ῼῳ", "Ↄↄ", "Ⓐⓐ",
          "Ⓑⓑ", "Ⓒⓒ", "Ⓓⓓ", "Ⓔⓔ", "Ⓕⓕ", "Ⓖⓖ", "Ⓗⓗ", "Ⓘⓘ", "Ⓙⓙ", "Ⓚⓚ",
          "Ⓛⓛ", "Ⓜⓜ", "Ⓝⓝ", "Ⓞⓞ", "Ⓟⓟ", "Ⓠⓠ", "Ⓡⓡ", "Ⓢⓢ", "Ⓣⓣ", "Ⓤⓤ",
          "Ⓥⓥ", "Ⓦⓦ", "Ⓧⓧ", "Ⓨⓨ", "Ⓩⓩ", "Ⲁⲁ", "Ⲃⲃ", "Ⲅⲅ", "Ⲇⲇ", "Ⲉⲉ",
          "Ⲋⲋ", "Ⲍⲍ", "Ⲏⲏ", "Ⲑⲑ", "Ⲓⲓ", "Ⲕⲕ", "Ⲗⲗ", "Ⲙⲙ", "Ⲛⲛ", "Ⲝⲝ",
          "Ⲟⲟ", "Ⲡⲡ", "Ⲣⲣ", "Ⲥⲥ", "Ⲧⲧ", "Ⲩⲩ", "Ⲫⲫ", "Ⲭⲭ", "Ⲯⲯ", "Ⲱⲱ",
          "Ⲳⲳ", "Ⲵⲵ", "Ⲷⲷ", "Ⲹⲹ", "Ⲻⲻ", "Ⲽⲽ", "Ⲿⲿ", "Ⳁⳁ", "Ⳃⳃ", "Ⳅⳅ",
          "Ⳇⳇ", "Ⳉⳉ", "Ⳋⳋ", "Ⳍⳍ", "Ⳏⳏ", "Ⳑⳑ", "Ⳓⳓ", "Ⳕⳕ", "Ⳗⳗ", "Ⳙⳙ",
          "Ⳛⳛ", "Ⳝⳝ", "Ⳟⳟ", "Ⳡⳡ", "Ⳣⳣ", "Ⳬⳬ", "Ⳮⳮ", "Ⳳⳳ", "Ꚁꚁ", "Ꚃꚃ",
          "Ꚅꚅ", "Ꚇꚇ", "Ꚉꚉ", "Ꚋꚋ", "Ꚍꚍ", "Ꚏꚏ", "Ꚑꚑ", "Ꚓꚓ", "Ꚕꚕ", "Ꚗꚗ",
          "Ꚙꚙ", "Ꚛꚛ", "Ꞁꞁ", "Ꞃꞃ", "Ꞅꞅ", "Ꞇꞇ", "Ꞌꞌ", "ꞍU+0265", "Ꞑꞑ", "Ꞓꞓ",
          "Ꞗꞗ", "Ꞙꞙ", "Ꞛꞛ", "Ꞝꞝ", "Ꞟꞟ", "Ꞡꞡ", "Ꞣꞣ", "Ꞥꞥ", "Ꞧꞧ", "Ꞩꞩ",
          "ꞪU+0266", "ꞫU+025C", "ꞬU+0261", "ꞭU+026C", "ꞮU+026A", "Ʞʞ", "Ʇʇ", "Ʝʝ", "ꞳU+AB53", "Ꞵꞵ",
          "Ꞷꞷ", "Ꞹꞹ", "Ꞻꞻ", "Ꞽꞽ", "Ꞿꞿ", "Ꟁꟁ", "Ꟃꟃ", "Ꞔꞔ", "Ʂʂ", "Ᶎᶎ",
          "Ꟈꟈ", "Ꟊꟊ", "ꟋU+0264", "Ꟍꟍ", "꟎꟏", "Ꟑꟑ", "꟒ꟓ", "꟔ꟕ", "Ꟗꟗ", "Ꟙꟙ",
          "Ꟛꟛ", "Ƛƛ", "Ꟶꟶ" }
    IN  [u \in { SubSeq(p, 1, 1) : p \in pairs } |->
            LET p == CHOOSE r \in pairs : SubSeq(r, 1, 1) = u
            IN  SubSeq(p, 2, Len(p))]

\* the lower-case form of one character, its context aside
LowerChar(c) == IF c \in DOMAIN LowerTable THEN LowerTable[c] ELSE c

\* the characters with the Unicode property Case_Ignorable
CaseIgnorable ==
    { "'", ".", ":", "^", SubSeq("`'", 1, 1), "¨", "­", "¯", "´", "·", "¸", "ʰ", "ʱ", "ʲ", "ʳ", "ʴ",
      "ʵ", "ʶ", "ʷ", "ʸ", "ʹ", "ʺ", "ʻ", "ʼ", "ʽ", "ʾ", "ʿ", "ˀ", "ˁ", "˂", "˃", "˄",
      "˅", "ˆ", "ˇ", "ˈ", "ˉ", "ˊ", "ˋ", "ˌ", "ˍ", "ˎ", "ˏ", "ː", "ˑ", "˒", "˓", "˔",
      "˕", "˖", "˗", "˘", "˙", "˚", "˛", "˜", "˝", "˞", "˟", "ˠ", "ˡ", "ˢ", "ˣ", "ˤ",
      "˥", "˦", "˧", "˨", "˩", "˪", "˫", "ˬ", "˭", "ˮ", "˯", "˰", "˱", "˲", "˳", "˴",
      "˵", "˶", "˷", "˸", "˹", "˺", "˻", "˼", "˽", "˾", "˿", "΄", "΅", "·", "҃", "҄",
      "҅", "҆", "҇", "҈", "҉", "֑", "֒", "֓", "֔", "֕", "֖", "֗", "֘", "֙", "֚", "֛",
      "֜", "֝", "֞", "֟", "֠", "֡", "֢", "֣", "֤", "֥", "֦", "֧", "֨", "֩", "֪", "֫",
      "֬", "֭", "֮", "֯", "ְ", "ֱ", "ֲ", "ֳ", "ִ", "ֵ", "ֶ", "ַ", "ָ", "ֹ", "ֺ", "ֻ",
      "ּ", "ֽ", "ֿ", "ׁ", "ׂ", "ׄ", "ׅ", "ׇ", "״", "ۖ", "ۗ", "ۘ", "ۙ", "ۚ", "ۛ", "ۜ",
      "۝", "۟", "۠", "ۡ", "ۢ", "ۣ", "ۤ", "ۥ", "ۦ", "ۧ", "ۨ", "۪", "۫", "۬", "ۭ", "ަ",
      "ާ", "ި", "ީ", "ު", "ޫ", "ެ", "ޭ", "ޮ", "ޯ", "ް", "߫", "߬", "߭", "߮", "߯", "߰",
      "߱", "߲", "߳", "ߴ", "ߵ", "ߺ", "߽", "࢈", "࢐", "࢑", "ࢗ", "࢘", "࢙", "࢚", "࢛", "࢜",
      "࢝", "࢞", "࢟", "ࣉ", "࣊", "࣋", "࣌", "࣍", "࣎", "࣏", "࣐", "࣑", "࣒", "࣓", "ࣔ", "ࣕ",
      "ࣖ", "ࣗ", "ࣘ", "ࣙ", "ࣚ", "ࣛ", "ࣜ", "ࣝ", "ࣞ", "ࣟ", "࣠", "࣡", "࣢", "ࣣ", "ࣤ", "ࣥ",
      "ࣦ", "ࣧ", "ࣨ", "ࣩ", "࣪", "࣫", "࣬", "࣭", "࣮", "࣯", "ࣰ", "ࣱ", "ࣲ", "ࣳ", "ࣴ", "ࣵ",
      "ࣶ", "ࣷ", "ࣸ", "ࣹ", "ࣺ", "ࣻ", "ࣼ", "ࣽ", "ࣾ", "ࣿ", "ঁ", "়", "ু", "ূ", "ৃ", "ৄ",
      "্", "ৢ", "ৣ", "৾", "ઁ", "ં", "઼", "ુ", "ૂ", "ૃ", "ૄ", "ૅ", "ે", "ૈ", "્", "ૢ",
      "ૣ", "ૺ", "ૻ", "ૼ", "૽", "૾", "૿", "ஂ", "ீ", "்", "ಁ", "಼", "ಿ", "ೆ", "ೌ", "್",
      "ೢ", "ೣ", "ඁ", "්", "ි", "ී", "ු", "ූ", "ັ", "ິ", "ີ", "ຶ", "ື", "ຸ", "ູ", "຺",
      "ົ", "ຼ", "ໆ", "່", "້", "໊", "໋", "໌", "ໍ", "໎", "ྀ", "ཱྀ", "ྂ", "ྃ", "྄", "྆",
      "྇", "ྍ", "ྎ", "ྏ", "ྐ", "ྑ", "ྒ", "ྒྷ", "ྔ", "ྕ", "ྖ", "ྗ", "ྙ", "ྚ", "ྛ", "ྜ",
      "ྜྷ", "ྞ", "ྟ", "ྠ", "ྡ", "ྡྷ", "ྣ", "ྤ", "ྥ", "ྦ", "ྦྷ", "ྨ", "ྩ", "ྪ", "ྫ", "ྫྷ",
      "ྭ", "ྮ", "ྯ", "ྰ", "ྱ", "ྲ", "ླ", "ྴ", "ྵ", "ྶ", "ྷ", "ྸ", "ྐྵ", "ྺ", "ྻ", "ྼ",
      "࿆", "ႂ", "ႅ", "ႆ", "ႍ", "ႝ", "ჼ", "឴", "឵", "ិ", "ី", "ឹ", "ឺ", "ុ", "ូ", "ួ",
      "ំ", "៉", "៊", "់", "៌", "៍", "៎", "៏", "័", "៑", "្", "៓", "ៗ", "៝", "ᢅ", "ᢆ",
      "ᢩ", "ᪧ", "᪰", "᪱", "᪲", "᪳", "᪴", "᪵", "᪶", "᪷", "᪸", "᪹", "᪺", "᪻", "᪼", "᪽",
      "᪾", "ᪿ", "ᫀ", "᫁", "᫂", "᫃", "᫄", "᫅", "᫆", "᫇", "᫈", "᫉", "᫊", "᫋", "ᫌ", "ᫍ",
      "ᫎ", "᫏", "᫐", "᫑", "᫒", "᫓", "᫔", "᫕", "᫖", "᫗", "᫘", "᫙", "᫚", "᫛", "᫜", "᫝",
      "᫠", "᫡", "᫢", "᫣", "᫤", "᫥", "᫦", "᫧", "᫨", "᫩", "᫪", "᫫", "ᮀ", "ᮁ", "ᮢ", "ᮣ",
      "ᮤ", "ᮥ", "ᮨ", "ᮩ", "᮫", "ᮬ", "ᮭ", "᯦", "ᯨ", "ᯩ", "ᯭ", "ᯯ", "ᯰ", "ᯱ", "᳐", "᳑",
      "᳒", "᳔", "᳕", "᳖", "᳗", "᳘", "᳙", "᳚", "᳛", "᳜", "᳝", "᳞", "᳟", "᳠", "᳢", "᳣",
      "᳤", "᳥", "᳦", "᳧", "᳨", "᳭", "᳴", "᳸", "᳹", "ᶛ", "ᶜ", "ᶝ", "ᶞ", "ᶟ", "ᶠ", "ᶡ",
      "ᶢ", "ᶣ", "ᶤ", "ᶥ", "ᶦ", "ᶧ", "ᶨ", "ᶩ", "ᶪ", "ᶫ", "ᶬ", "ᶭ", "ᶮ", "ᶯ", "ᶰ", "ᶱ",
      "ᶲ", "ᶳ", "ᶴ", "ᶵ", "ᶶ", "ᶷ", "ᶸ", "ᶹ", "ᶺ", "ᶻ", "ᶼ", "ᶽ", "ᶾ", "ᶿ", "᷀", "᷁",
      "᷂", "᷃", "᷄", "᷅", "᷆", "᷇", "᷈", "᷉", "᷊", "᷋", "᷌", "᷍", "᷎", "᷏", "᷐", "᷑",
      "᷒", "ᷓ", "ᷔ", "ᷕ", "ᷖ", "ᷗ", "ᷘ", "ᷙ", "ᷚ", "ᷛ", "ᷜ", "ᷝ", "ᷞ", "ᷟ", "ᷠ", "ᷡ",
      "ᷢ", "ᷣ", "ᷤ", "ᷥ", "ᷦ", "ᷧ", "ᷨ", "ᷩ", "ᷪ", "ᷫ", "ᷬ", "ᷭ", "ᷮ", "ᷯ", "ᷰ", "ᷱ",
      "ᷲ", "ᷳ", "ᷴ", "᷵", "᷶", "᷷", "᷸", "᷹", "᷺", "᷻", "᷼", "᷽", "᷾", "᷿", "᾽", "᾿",
      "῀", "῁", "῍", "῎", "῏", "῝", "῞", "῟", "῭", "΅", "`", "´", "῾", "ₐ", "ₑ", "ₒ",
      "ₓ", "ₔ", "ₕ", "ₖ", "ₗ", "ₘ", "ₙ", "ₚ", "ₛ", "ₜ", "⃐", "⃑", "⃒", "⃓", "⃔", "⃕",
      "⃖", "⃗", "⃘", "⃙", "⃚", "⃛", "⃜", "⃝", "⃞", "⃟", "⃠", "⃡", "⃢", "⃣", "⃤", "⃥",
      "⃦", "⃧", "⃨", "⃩", "⃪", "⃫", "⃬", "⃭", "⃮", "⃯", "⃰", "⳯", "⳰", "⳱", "ⷠ", "ⷡ",
      "ⷢ", "ⷣ", "ⷤ", "ⷥ", "ⷦ", "ⷧ", "ⷨ", "ⷩ", "ⷪ", "ⷫ", "ⷬ", "ⷭ", "ⷮ", "ⷯ", "ⷰ", "ⷱ",
      "ⷲ", "ⷳ", "ⷴ", "ⷵ", "ⷶ", "ⷷ", "ⷸ", "ⷹ", "ⷺ", "ⷻ", "ⷼ", "ⷽ", "ⷾ", "ⷿ", "゙", "゚",
      "゛", "゜", "ゝ", "ゞ", "ー", "ヽ", "ヾ", "ꓸ", "ꓹ", "ꓺ", "ꓻ", "ꓼ", "ꓽ", "ꚜ", "ꚝ", "ꚞ",
      "ꚟ", "꛰", "꛱", "ꞈ", "꞉", "꞊", "꟱", "ꟲ", "ꟳ", "ꟴ", "ꟸ", "ꟹ", "꣄", "ꣅ", "꣠", "꣡",
      "꣢", "꣣", "꣤", "꣥", "꣦", "꣧", "꣨", "꣩", "꣪", "꣫", "꣬", "꣭", "꣮", "꣯", "꣰", "꣱",
      "ꣿ", "ꦀ", "ꦁ", "ꦂ", "꦳", "ꦶ", "ꦷ", "ꦸ", "ꦹ", "ꦼ", "ꦽ", "ꧏ", "ꧥ", "ꧦ", "ꪰ", "ꪲ",
      "ꪳ", "ꪴ", "ꪷ", "ꪸ", "ꪾ", "꪿", "꫁", "ꫝ", "ꫬ", "ꫭ", "ꫳ", "ꫴ", "꫶", "ꯥ", "ꯨ", "꯭",
      "﮲", "﮳", "﮴", "﮵", "﮶", "﮷", "﮸", "﮹", "﮺", "﮻", "﮼", "﮽", "﮾", "﮿", "﯀", "﯁",
      "﯂", "﻿", "ﾞ", "ﾟ", "￣", "￹", "￺", "￻" }

\* the characters with the Unicode property Cased and without the property
\* Case_Ignorable: the letters at which the scan of Final_Sigma, which passes
\* over the case-ignorable characters, ends with a cased letter met
\* (U+0295, a letter without case, is not among them)
CasedLetter ==
    { "A", "B", "C", "D", "E", "F", "G", "H", "I", "J", "K", "L", "M", "N", "O", "P",
      "Q", "R", "S", "T", "U", "V", "W", "X", "Y", "Z", "a", "b", "c", "d", "e", "f",
      "g", "h", "i", "j", "k", "l", "m", "n", "o", "p", "q", "r", "s", "t", "u", "v",
      "w", "x", "y", "z", "ª", "µ", "º", "À", "Á", "Â", "Ã", "Ä", "Å", "Æ", "Ç", "È",
      "É", "Ê", "Ë", "Ì", "Í", "Î", "Ï", "Ð", "Ñ", "Ò", "Ó", "Ô", "Õ", "Ö", "Ø", "Ù",
      "Ú", "Û", "Ü", "Ý", "Þ", "ß", "à", "á", "â", "ã", "ä", "å", "æ", "ç", "è", "é",
      "ê", "ë", "ì", "í", "î", "ï", "ð", "ñ", "ò", "ó", "ô", "õ", "ö", "ø", "ù", "ú",
      "û", "ü", "ý", "þ", "ÿ", "ƀ", "Ɓ", "Ƃ", "ƃ", "Ƅ", "ƅ", "Ɔ", "Ƈ", "ƈ", "Ɖ", "Ɗ",
      "Ƌ", "ƌ", "ƍ", "Ǝ", "Ə", "Ɛ", "Ƒ", "ƒ", "Ɠ", "Ɣ", "ƕ", "Ɩ", "Ɨ", "Ƙ", "ƙ", "ƚ",
      "ƛ", "Ɯ", "Ɲ", "ƞ", "Ɵ", "Ơ", "ơ", "Ƣ", "ƣ", "Ƥ", "ƥ", "Ʀ", "Ƨ", "ƨ", "Ʃ", "ƪ",
      "ƫ", "Ƭ", "ƭ", "Ʈ", "Ư", "ư", "Ʊ", "Ʋ", "Ƴ", "ƴ", "Ƶ", "ƶ", "Ʒ", "Ƹ", "ƹ", "ƺ",
      "Ƽ", "ƽ", "ƾ", "ƿ", "Ǆ", "ǅ", "ǆ", "Ǉ", "ǈ", "ǉ", "Ǌ", "ǋ", "ǌ", "Ǎ", "ǎ", "Ǐ",
      "ǐ", "Ǒ", "ǒ", "Ǔ", "ǔ", "Ǖ", "ǖ", "Ǘ", "ǘ", "Ǚ", "ǚ", "Ǜ", "ǜ", "ǝ", "Ǟ", "ǟ",
      "Ǡ", "ǡ", "Ǣ", "ǣ", "Ǥ", "ǥ", "Ǧ", "ǧ", "Ǩ", "ǩ", "Ǫ", "ǫ", "Ǭ", "ǭ", "Ǯ", "ǯ",
      "ǰ", "Ǳ", "ǲ", "ǳ", "Ǵ", "ǵ", "Ƕ", "Ƿ", "Ǹ", "ǹ", "Ǻ", "ǻ", "Ǽ", "ǽ", "Ǿ", "ǿ",
      "ʀ", "ʁ", "ʂ", "ʃ", "ʄ", "ʅ", "ʆ", "ʇ", "ʈ", "ʉ", "ʊ", "ʋ", "ʌ", "ʍ", "ʎ", "ʏ",
      "ʐ", "ʑ", "ʒ", "ʓ", "ʖ", "ʗ", "ʘ", "ʙ", "ʚ", "ʛ", "ʜ", "ʝ", "ʞ", "ʟ", "ʠ",
      "ʡ", "ʢ", "ʣ", "ʤ", "ʥ", "ʦ", "ʧ", "ʨ", "ʩ", "ʪ", "ʫ", "ʬ", "ʭ", "ʮ", "ʯ", "Ά",
      "Έ", "Ή", "Ί", "Ό", "Ύ", "Ώ", "ΐ", "Α", "Β", "Γ", "Δ", "Ε", "Ζ", "Η", "Θ", "Ι",
      "Κ", "Λ", "Μ", "Ν", "Ξ", "Ο", "Π", "Ρ", "Σ", "Τ", "Υ", "Φ", "Χ", "Ψ", "Ω", "Ϊ",
      "Ϋ", "ά", "έ", "ή", "ί", "ΰ", "α", "β", "γ", "δ", "ε", "ζ", "η", "θ", "ι", "κ",
      "λ", "μ", "ν", "ξ", "ο", "π", "ρ", "ς", "σ", "τ", "υ", "φ", "χ", "ψ", "ω", "ϊ",
      "ϋ", "ό", "ύ", "ώ", "Ϗ", "ϐ", "ϑ", "ϒ", "ϓ", "ϔ", "ϕ", "ϖ", "ϗ", "Ϙ", "ϙ", "Ϛ",
      "ϛ", "Ϝ", "ϝ", "Ϟ", "ϟ", "Ϡ", "ϡ", "Ϣ", "ϣ", "Ϥ", "ϥ", "Ϧ", "ϧ", "Ϩ", "ϩ", "Ϫ",
      "ϫ", "Ϭ", "ϭ", "Ϯ", "ϯ", "ϰ", "ϱ", "ϲ", "ϳ", "ϴ", "ϵ", "Ϸ", "ϸ", "Ϲ", "Ϻ", "ϻ",
      "ϼ", "Ͻ", "Ͼ", "Ͽ", "Ҁ", "ҁ", "Ҋ", "ҋ", "Ҍ", "ҍ", "Ҏ", "ҏ", "Ґ", "ґ", "Ғ", "ғ",
      "Ҕ", "ҕ", "Җ", "җ", "Ҙ", "ҙ", "Қ", "қ", "Ҝ", "ҝ", "Ҟ", "ҟ", "Ҡ", "ҡ", "Ң", "ң",
      "Ҥ", "ҥ", "Ҧ", "ҧ", "Ҩ", "ҩ", "Ҫ", "ҫ", "Ҭ", "ҭ", "Ү", "ү", "Ұ", "ұ", "Ҳ", "ҳ",
      "Ҵ", "ҵ", "Ҷ", "ҷ", "Ҹ", "ҹ", "Һ", "һ", "Ҽ", "ҽ", "Ҿ", "ҿ", "Ӏ", "Ӂ", "ӂ", "Ӄ",
      "ӄ", "Ӆ", "ӆ", "Ӈ", "ӈ", "Ӊ", "ӊ", "Ӌ", "ӌ", "Ӎ", "ӎ", "ӏ", "Ӑ", "ӑ", "Ӓ", "ӓ",
      "Ӕ", "ӕ", "Ӗ", "ӗ", "Ә", "ә", "Ӛ", "ӛ", "Ӝ", "ӝ", "Ӟ", "ӟ", "Ӡ", "ӡ", "Ӣ", "ӣ",
      "Ӥ", "ӥ", "Ӧ", "ӧ", "Ө", "ө", "Ӫ", "ӫ", "Ӭ", "ӭ", "Ӯ", "ӯ", "Ӱ", "ӱ", "Ӳ", "ӳ",
      "Ӵ", "ӵ", "Ӷ", "ӷ", "Ӹ", "ӹ", "Ӻ", "ӻ", "Ӽ", "ӽ", "Ӿ", "ӿ", "ր", "ց", "ւ", "փ",
      "ք", "օ", "ֆ", "և", "ֈ", "Ⴀ", "Ⴁ", "Ⴂ", "Ⴃ", "Ⴄ", "Ⴅ", "Ⴆ", "Ⴇ", "Ⴈ", "Ⴉ", "Ⴊ",
      "Ⴋ", "Ⴌ", "Ⴍ", "Ⴎ", "Ⴏ", "Ⴐ", "Ⴑ", "Ⴒ", "Ⴓ", "Ⴔ", "Ⴕ", "Ⴖ", "Ⴗ", "Ⴘ", "Ⴙ", "Ⴚ",
      "Ⴛ", "Ⴜ", "Ⴝ", "Ⴞ", "Ⴟ", "Ⴠ", "Ⴡ", "Ⴢ", "Ⴣ", "Ⴤ", "Ⴥ", "Ⴧ", "Ⴭ", "ა", "ბ", "გ",
      "დ", "ე", "ვ", "ზ", "თ", "ი", "კ", "ლ", "მ", "ნ", "ო", "პ", "ჟ", "რ", "ს", "ტ",
      "უ", "ფ", "ქ", "ღ", "ყ", "შ", "ჩ", "ც", "ძ", "წ", "ჭ", "ხ", "ჯ", "ჰ", "ჱ", "ჲ",
      "ჳ", "ჴ", "ჵ", "ჶ", "ჷ", "ჸ", "ჹ", "ჺ", "ჽ", "ჾ", "ჿ", "Ꭰ", "Ꭱ", "Ꭲ", "Ꭳ", "Ꭴ",
      "Ꭵ", "Ꭶ", "Ꭷ", "Ꭸ", "Ꭹ", "Ꭺ", "Ꭻ", "Ꭼ", "Ꭽ", "Ꭾ", "Ꭿ", "Ꮀ", "Ꮁ", "Ꮂ", "Ꮃ", "Ꮄ",
      "Ꮅ", "Ꮆ", "Ꮇ", "Ꮈ", "Ꮉ", "Ꮊ", "Ꮋ", "Ꮌ", "Ꮍ", "Ꮎ", "Ꮏ", "Ꮐ", "Ꮑ", "Ꮒ", "Ꮓ", "Ꮔ",
      "Ꮕ", "Ꮖ", "Ꮗ", "Ꮘ", "Ꮙ", "Ꮚ", "Ꮛ", "Ꮜ", "Ꮝ", "Ꮞ", "Ꮟ", "Ꮠ", "Ꮡ", "Ꮢ", "Ꮣ", "Ꮤ",
      "Ꮥ", "Ꮦ", "Ꮧ", "Ꮨ", "Ꮩ", "Ꮪ", "Ꮫ", "Ꮬ", "Ꮭ", "Ꮮ", "Ꮯ", "Ꮰ", "Ꮱ", "Ꮲ", "Ꮳ", "Ꮴ",
      "Ꮵ", "Ꮶ", "Ꮷ", "Ꮸ", "Ꮹ", "Ꮺ", "Ꮻ", "Ꮼ", "Ꮽ", "Ꮾ", "Ꮿ", "Ᏸ", "Ᏹ", "Ᏺ", "Ᏻ", "Ᏼ",
      "Ᏽ", "ᏸ", "ᏹ", "ᏺ", "ᏻ", "ᏼ", "ᏽ", "ᲀ", "ᲁ", "ᲂ", "ᲃ", "ᲄ", "ᲅ", "ᲆ", "ᲇ", "ᲈ",
      "Ᲊ", "ᲊ", "Ა", "Ბ", "Გ", "Დ", "Ე", "Ვ", "Ზ", "Თ", "Ი", "Კ", "Ლ", "Მ", "Ნ", "Ო",
      "Პ", "Ჟ", "Რ", "Ს", "Ტ", "Უ", "Ფ", "Ქ", "Ღ", "Ყ", "Შ", "Ჩ", "Ც", "Ძ", "Წ", "Ჭ",
      "Ხ", "Ჯ", "Ჰ", "Ჱ", "Ჲ", "Ჳ", "Ჴ", "Ჵ", "Ჶ", "Ჷ", "Ჸ", "Ჹ", "Ჺ", "Ჽ", "Ჾ", "Ჿ",
      "ᶀ", "ᶁ", "ᶂ", "ᶃ", "ᶄ", "ᶅ", "ᶆ", "ᶇ", "ᶈ", "ᶉ", "ᶊ", "ᶋ", "ᶌ", "ᶍ", "ᶎ", "ᶏ",
      "ᶐ", "ᶑ", "ᶒ", "ᶓ", "ᶔ", "ᶕ", "ᶖ", "ᶗ", "ᶘ", "ᶙ", "ᶚ", "Ẁ", "ẁ", "Ẃ", "ẃ", "Ẅ",
      "ẅ", "Ẇ", "ẇ", "Ẉ", "ẉ", "Ẋ", "ẋ", "Ẍ", "ẍ", "Ẏ", "ẏ", "Ẑ", "ẑ", "Ẓ", "ẓ", "Ẕ",
      "ẕ", "ẖ", "ẗ", "ẘ", "ẙ", "ẚ", "ẛ", "ẜ", "ẝ", "ẞ", "ẟ", "Ạ", "ạ", "Ả", "ả", "Ấ",
      "ấ", "Ầ", "ầ", "Ẩ", "ẩ", "Ẫ", "ẫ", "Ậ", "ậ", "Ắ", "ắ", "Ằ", "ằ", "Ẳ", "ẳ", "Ẵ",
      "ẵ", "Ặ", "ặ", "Ẹ", "ẹ", "Ẻ", "ẻ", "Ẽ", "ẽ", "Ế", "ế", "Ề", "ề", "Ể", "ể", "Ễ",
      "ễ", "Ệ", "ệ", "Ỉ", "ỉ", "Ị", "ị", "Ọ", "ọ", "Ỏ", "ỏ", "Ố", "ố", "Ồ", "ồ", "Ổ",
      "ổ", "Ỗ", "ỗ", "Ộ", "ộ", "Ớ", "ớ", "Ờ", "ờ", "Ở", "ở", "Ỡ", "ỡ", "Ợ", "ợ", "Ụ",
      "ụ", "Ủ", "ủ", "Ứ", "ứ", "Ừ", "ừ", "Ử", "ử", "Ữ", "ữ", "Ự", "ự", "Ỳ", "ỳ", "Ỵ",
      "ỵ", "Ỷ", "ỷ", "Ỹ", "ỹ", "Ỻ", "ỻ", "Ỽ", "ỽ", "Ỿ", "ỿ", "ᾀ", "ᾁ", "ᾂ", "ᾃ", "ᾄ",
      "ᾅ", "ᾆ", "ᾇ", "ᾈ", "ᾉ", "ᾊ", "ᾋ", "ᾌ", "ᾍ", "ᾎ", "ᾏ", "ᾐ", "ᾑ", "ᾒ", "ᾓ", "ᾔ",
      "ᾕ", "ᾖ", "ᾗ", "ᾘ", "ᾙ", "ᾚ", "ᾛ", "ᾜ", "ᾝ", "ᾞ", "ᾟ", "ᾠ", "ᾡ", "ᾢ", "ᾣ", "ᾤ",
      "ᾥ", "ᾦ", "ᾧ", "ᾨ", "ᾩ", "ᾪ", "ᾫ", "ᾬ", "ᾭ", "ᾮ", "ᾯ", "ᾰ", "ᾱ", "ᾲ", "ᾳ", "ᾴ",
      "ᾶ", "ᾷ", "Ᾰ", "Ᾱ", "Ὰ", "Ά", "ᾼ", "ι", "ῂ", "ῃ", "ῄ", "ῆ", "ῇ", "Ὲ", "Έ", "Ὴ",
      "Ή", "ῌ", "ῐ", "ῑ", "ῒ", "ΐ", "ῖ", "ῗ", "Ῐ", "Ῑ", "Ὶ", "Ί", "ῠ", "ῡ", "ῢ", "ΰ",
      "ῤ", "ῥ", "ῦ", "ῧ", "Ῠ", "Ῡ", "Ὺ", "Ύ", "Ῥ", "ῲ", "ῳ", "ῴ", "ῶ", "ῷ", "Ὸ", "Ό",
      "Ὼ", "Ώ", "ῼ", "Ↄ", "ↄ", "Ⓐ", "Ⓑ", "Ⓒ", "Ⓓ", "Ⓔ", "Ⓕ", "Ⓖ", "Ⓗ", "Ⓘ", "Ⓙ", "Ⓚ",
      "Ⓛ", "Ⓜ", "Ⓝ", "Ⓞ", "Ⓟ", "Ⓠ", "Ⓡ", "Ⓢ", "Ⓣ", "Ⓤ", "Ⓥ", "Ⓦ", "Ⓧ", "Ⓨ", "Ⓩ", "ⓐ",
      "ⓑ", "ⓒ", "ⓓ", "ⓔ", "ⓕ", "ⓖ", "ⓗ", "ⓘ", "ⓙ", "ⓚ", "ⓛ", "ⓜ", "ⓝ", "ⓞ", "ⓟ", "ⓠ",
      "ⓡ", "ⓢ", "ⓣ", "ⓤ", "ⓥ", "ⓦ", "ⓧ", "ⓨ", "ⓩ", "Ⲁ", "ⲁ", "Ⲃ", "ⲃ", "Ⲅ", "ⲅ", "Ⲇ",
      "ⲇ", "Ⲉ", "ⲉ", "Ⲋ", "ⲋ", "Ⲍ", "ⲍ", "Ⲏ", "ⲏ", "Ⲑ", "ⲑ", "Ⲓ", "ⲓ", "Ⲕ", "ⲕ", "Ⲗ",
      "ⲗ", "Ⲙ", "ⲙ", "Ⲛ", "ⲛ", "Ⲝ", "ⲝ", "Ⲟ", "ⲟ", "Ⲡ", "ⲡ", "Ⲣ", "ⲣ", "Ⲥ", "ⲥ", "Ⲧ",
      "ⲧ", "Ⲩ", "ⲩ", "Ⲫ", "ⲫ", "Ⲭ", "ⲭ", "Ⲯ", "ⲯ", "Ⲱ", "ⲱ", "Ⲳ", "ⲳ", "Ⲵ", "ⲵ", "Ⲷ",
      "ⲷ", "Ⲹ", "ⲹ", "Ⲻ", "ⲻ", "Ⲽ", "ⲽ", "Ⲿ", "ⲿ", "Ⳁ", "ⳁ", "Ⳃ", "ⳃ", "Ⳅ", "ⳅ", "Ⳇ",
      "ⳇ", "Ⳉ", "ⳉ", "Ⳋ", "ⳋ", "Ⳍ", "ⳍ", "Ⳏ", "ⳏ", "Ⳑ", "ⳑ", "Ⳓ", "ⳓ", "Ⳕ", "ⳕ", "Ⳗ",
      "ⳗ", "Ⳙ", "ⳙ", "Ⳛ", "ⳛ", "Ⳝ", "ⳝ", "Ⳟ", "ⳟ", "Ⳡ", "ⳡ", "Ⳣ", "ⳣ", "ⳤ", "Ⳬ", "ⳬ",
      "Ⳮ", "ⳮ", "Ⳳ", "ⳳ", "Ꚁ", "ꚁ", "Ꚃ", "ꚃ", "Ꚅ", "ꚅ", "Ꚇ", "ꚇ", "Ꚉ", "ꚉ", "Ꚋ", "ꚋ",
      "Ꚍ", "ꚍ", "Ꚏ", "ꚏ", "Ꚑ", "ꚑ", "Ꚓ", "ꚓ", "Ꚕ", "ꚕ", "Ꚗ", "ꚗ", "Ꚙ", "ꚙ", "Ꚛ", "ꚛ",
      "Ꞁ", "ꞁ", "Ꞃ", "ꞃ", "Ꞅ", "ꞅ", "Ꞇ", "ꞇ", "Ꞌ", "ꞌ", "Ɥ", "ꞎ", "Ꞑ", "ꞑ", "Ꞓ", "ꞓ",
      "ꞔ", "ꞕ", "Ꞗ", "ꞗ", "Ꞙ", "ꞙ", "Ꞛ", "ꞛ", "Ꞝ", "ꞝ", "Ꞟ", "ꞟ", "Ꞡ", "ꞡ", "Ꞣ", "ꞣ",
      "Ꞥ", "ꞥ", "Ꞧ", "ꞧ", "Ꞩ", "ꞩ", "Ɦ", "Ɜ", "Ɡ", "Ɬ", "Ɪ", "ꞯ", "Ʞ", "Ʇ", "Ʝ", "Ꭓ",
      "Ꞵ", "ꞵ", "Ꞷ", "ꞷ", "Ꞹ", "ꞹ", "Ꞻ", "ꞻ", "Ꞽ", "ꞽ", "Ꞿ", "ꞿ", "Ꟁ", "ꟁ", "Ꟃ", "ꟃ",
      "Ꞔ", "Ʂ", "Ᶎ", "Ꟈ", "ꟈ", "Ꟊ", "ꟊ", "Ɤ", "Ꟍ", "ꟍ", "꟎", "꟏", "Ꟑ", "ꟑ", "꟒", "ꟓ",
      "꟔", "ꟕ", "Ꟗ", "ꟗ", "Ꟙ", "ꟙ", "Ꟛ", "ꟛ", "Ƛ", "Ꟶ", "ꟶ", "ꟺ", "ꮀ", "ꮁ", "ꮂ", "ꮃ",
      "ꮄ", "ꮅ", "ꮆ", "ꮇ", "ꮈ", "ꮉ", "ꮊ", "ꮋ", "ꮌ", "ꮍ", "ꮎ", "ꮏ", "ꮐ", "ꮑ", "ꮒ", "ꮓ",
      "ꮔ", "ꮕ", "ꮖ", "ꮗ", "ꮘ", "ꮙ", "ꮚ", "ꮛ", "ꮜ", "ꮝ", "ꮞ", "ꮟ", "ꮠ", "ꮡ", "ꮢ", "ꮣ",
      "ꮤ", "ꮥ", "ꮦ", "ꮧ", "ꮨ", "ꮩ", "ꮪ", "ꮫ", "ꮬ", "ꮭ", "ꮮ", "ꮯ", "ꮰ", "ꮱ", "ꮲ", "ꮳ",
      "ꮴ", "ꮵ", "ꮶ", "ꮷ", "ꮸ", "ꮹ", "ꮺ", "ꮻ", "ꮼ", "ꮽ", "ꮾ", "ꮿ" }

\* String.prototype.toLowerCase: the Unicode default lower-case conversion.
\* Every character takes its lower-case form, but a capital sigma that ends a
\* word (Final_Sigma: going left over case-ignorable characters a cased
\* letter is met, going right none is) becomes the final small sigma.
toLowerCase(x) ==
    LET n == Len(x)
        ch(k) == SubSeq(x, k, k)
        casedBefore[j \in 0..n] ==
            IF j = 0 THEN FALSE
            ELSE IF ch(j) \in CaseIgnorable THEN casedBefore[j - 1]
            ELSE ch(j) \in CasedLetter
        casedAfter[j \in 1..(n + 1)] ==
            IF j = n + 1 THEN FALSE
            ELSE IF ch(j) \in CaseIgnorable THEN casedAfter[j + 1]
            ELSE ch(j) \in CasedLetter
        lowerAt(k) ==
            IF ch(k) = "Σ" /\ casedBefore[k - 1] /\ ~casedAfter[k + 1] THEN "ς"
            ELSE LowerChar(ch(k))
        lowerTo[k \in 0..n] ==
            IF k = 0 THEN "" ELSE lowerTo[k - 1] \o lowerAt(k)
    IN  lowerTo[n]

\* JSON.stringify(v, null, 2): the JSON text, kept as the value it serializes
JSONstringify(v) == [json |-> v]

\* a text that is a plain sentence
Plain(x) == [plain |-> x]

(***************************************************************************)
(* Errors.                                                                 *)
(***************************************************************************)
\* ErrorCode of @modelcontextprotocol/sdk
InvalidParams == "-32602"

MethodNotFound == "-32601"

\* new McpError(code, message): an Error whose message is "MCP error <code>: <message>"
McpError(code, message) ==
    [instanceofError |-> TRUE, mcp |-> TRUE, code |-> code,
     message |-> "MCP error " \o code \o ": " \o message]

\* a TypeError raised by the JavaScript runtime
TypeError(message) ==
    [instanceofError |-> TRUE, mcp |-> FALSE, code |-> "", message |-> message]

\* no error
NoError == [instanceofError |-> FALSE, mcp |-> FALSE, code |-> "none", message |-> ""]

\* what a rejected tracker-client call rejects with: an Error of the HTTP
\* layer, or a value that is not an Error
ClientFailures ==
    { [instanceofError |-> TRUE, mcp |-> FALSE, code |-> "",
       message |-> "404 - Issue does not exist"],
      [instanceofError |-> FALSE, mcp |-> FALSE, code |-> "", message |-> ""] }

(***************************************************************************)
(* The tool catalog and the requests.                                      *)
(***************************************************************************)
\* Object.keys(toolDefinitions), in the order of the source
toolDefinitions ==
    << "delete_issue", "get_issues", "update_issue", "list_fields",
       "list_issue_types", "list_link_types", "get_user", "create_issue",
       "create_issue_link" >>

\* the "required" list of each tool's inputSchema
RequiredOf(name) ==
    CASE name = "delete_issue" -> <<"issueKey">>
      [] name = "get_issues" -> <<"projectKey">>
      [] name = "update_issue" -> <<"issueKey">>
      [] name = "get_user" -> <<"email">>
      [] name = "create_issue" -> <<"projectKey", "summary", "issueType">>
      [] name = "create_issue_link" -> <<"inwardIssueKey", "outwardIssueKey", "linkType">>
      [] OTHER -> <<>>

\* the ListToolsRequestSchema handler: the names it returns
ListTools == { toolDefinitions[k] : k \in DOMAIN toolDefinitions }

\* the case labels of the switch of the CallToolRequestSchema handler
SwitchCases ==
    { "list_link_types", "list_issue_types", "get_issues", "update_issue",
      "get_user", "create_issue", "delete_issue", "create_issue_link" }

FieldNames ==
    { "issueKey", "projectKey", "jql", "summary", "issueType", "assignee",
      "status", "priority", "email", "labels", "components", "parent",
      "inwardIssueKey", "outwardIssueKey", "linkType" }

\* request.params.arguments: its kind, its string fields and its description
NoFields == [f \in FieldNames |-> Undef]

Bag(kind, fields, description) ==
    [kind |-> kind, fields |-> fields, description |-> description]

\* argument bags that are not plain objects: absent, null, a string, an array
NonObjectBags ==
    { Bag(k, NoFields, UndefText) : k \in {"undefined", "null", "string", "array"} }

EmptyBag == Bag("object", NoFields, UndefText)

\* values tried for a required field
RequiredValues(ok) == { Undef, Null, Num("7"), Str(""), Str(ok) }

\* values tried for a description
DescriptionValues ==
    { UndefText, StrText(<<>>), NumText(<<"5">>),
      StrText(<<"T", ":", "\n", "\n", "-", " ", "a", "\n", "-", " ", "b">>) }

Override(f, g) == [x \in FieldNames |-> IF x \in DOMAIN g THEN g[x] ELSE f[x]]

GetIssuesBags ==
    { Bag("object", Override(NoFields, [projectKey |-> pk, jql |-> q]), UndefText) :
        pk \in RequiredValues("X"),
        q \in { Undef, Str(""), Str("status = Done"), Num("5"), Num("0"),
                Arr(<<"ui", "api">>) } }

UpdateIssueBags ==
    { Bag("object",
          Override(NoFields, [issueKey |-> k, summary |-> su, assignee |-> a,
                              status |-> st, priority |-> pr]), d) :
        k \in { Undef, Str(""), Str("X-1") },
        su \in { Undef, Str(""), Str("New title") },
        a \in { Undef, Str(""), Str("bob@example.com") },
        st \in { Undef, Str(""), Str("done"), Str("Closed"), Num("5") },
        pr \in { Undef, Str("High") },
        d \in DescriptionValues }

GetUserBags ==
    { Bag("object", Override(NoFields, [email |-> e]), UndefText) :
        e \in RequiredValues("bob@example.com") }

CreateIssueBags ==
    { Bag("object",
          Override(NoFields, [projectKey |-> pk, summary |-> su, issueType |-> ty,
                              assignee |-> a, labels |-> x.labels,
                              components |-> x.components, priority |-> x.priority,
                              parent |-> x.parent]), d) :
        pk \in RequiredValues("X"),
        su \in RequiredValues("Title"),
        ty \in RequiredValues("Task"),
        a \in { Undef, Str(""), Str("712020:abc") },
        x \in { [labels |-> Undef, components |-> Undef, priority |-> Undef, parent |-> Undef],
                [labels |-> Arr(<<"ui">>), components |-> Arr(<<"web", "api">>),
                 priority |-> Str("High"), parent |-> Str("X-1")],
                [labels |-> Num("3"), components |-> Undef, priority |-> Str(""),
                 parent |-> Undef],
                [labels |-> Undef, components |-> Num("3"), priority |-> Undef,
                 parent |-> Undef] },
        d \in DescriptionValues }

DeleteIssueBags ==
    { Bag("object", Override(NoFields, [issueKey |-> k]), UndefText) :
        k \in RequiredValues("X-1") }

CreateIssueLinkBags ==
    { Bag("object",
          Override(NoFields, [inwardIssueKey |-> a, outwardIssueKey |-> b, linkType |-> c]),
          UndefText) :
        a \in RequiredValues("X-1"),
        b \in RequiredValues("X-2"),
        c \in RequiredValues("blocks") }

\* the argument bags tried for a tool name
BagsOf(name) ==
    NonObjectBags \cup {EmptyBag} \cup
    CASE name = "get_issues" -> GetIssuesBags
      [] name = "update_issue" -> UpdateIssueBags
      [] name = "get_user" -> GetUserBags
      [] name = "create_issue" -> CreateIssueBags
      [] name = "delete_issue" -> DeleteIssueBags
      [] name = "create_issue_link" -> CreateIssueLinkBags
      [] OTHER -> {}

\* names a caller may send: the catalog, and names that are in no catalog
RequestNames == ListTools \cup { "create_project", "no_such_tool" }

NoRequest == [name |-> "", arguments |-> Bag("undefined", NoFields, UndefText)]


(***************************************************************************)
(* Argument validators.  Each returns what it throws, if it throws.        *)
(***************************************************************************)
Passes == [threw |-> FALSE, error |-> NoError]

Throws(e) == [threw |-> TRUE, error |-> e]

\* typeof args !== "object" || args === null
NotAnObject(args) == args.kind \notin {"object", "array"}

\* the first required field, in the validator's order, that is not a non-empty string
FirstBadField(args, checks) ==
    LET bad == { k \in DOMAIN checks : NotNonEmptyString(args.fields[checks[k].field]) }
    IN  IF bad = {} THEN 0 ELSE CHOOSE k \in bad : \A j \in bad : k <= j

ValidateFields(args, checks) ==
    IF NotAnObject(args)
    THEN Throws(McpError(InvalidParams, "Arguments must be an object"))
    ELSE LET k == FirstBadField(args, checks)
         IN  IF k = 0 THEN Passes
             ELSE Throws(McpError(InvalidParams, checks[k].message))

validateDeleteIssueArgs(args) ==
    ValidateFields(args,
        << [field |-> "issueKey", message |-> "Issue key is required and must be a string"] >>)

validateCreateIssueArgs(args) ==
    ValidateFields(args,
        << [field |-> "projectKey", message |-> "Project key is required and must be a string"],
           [field |-> "summary", message |-> "Summary is required and must be a string"],
           [field |-> "issueType", message |-> "Issue type is required and must be a string"] >>)

validateGetUserArgs(args) ==
    ValidateFields(args,
        << [field |-> "email", message |-> "Email is required and must be a string"] >>)

\* faulty variant: the optional jql is checked like a required field
validateGetIssuesArgsNeedsJql(args) ==
    ValidateFields(args,
        << [field |-> "projectKey", message |-> "Project key is required and must be a string"],
           [field |-> "jql", message |-> "JQL is required and must be a string"] >>)

validateGetIssuesArgs(args) ==
    ValidateFields(args,
        << [field |-> "projectKey", message |-> "Project key is required and must be a string"] >>)

validateUpdateIssueArgs(args) ==
    ValidateFields(args,
        << [field |-> "issueKey", message |-> "Issue key is required and must be a string"] >>)

validateCreateIssueLinkArgs(args) ==
    ValidateFields(args,
        << [field |-> "inwardIssueKey",
            message |-> "Inward issue key is required and must be a string"],
           [field |-> "outwardIssueKey",
            message |-> "Outward issue key is required and must be a string"],
           [field |-> "linkType", message |-> "Link type is required and must be a string"] >>)

\* !request.params.arguments || typeof request.params.arguments !== "object"
ArgumentsMissing(args) == args.kind \in {"undefined", "null", "string"}

\* faulty variant: the argument checks are skipped
CheckArgumentsSkipped(args, validation) == Passes

\* the check at the head of a validated case, then the case's validator
CheckArguments(args, validation) ==
    IF ArgumentsMissing(args)
    THEN Throws(McpError(InvalidParams, "Arguments are required"))
    ELSE validation

(***************************************************************************)
(* The handler: envelopes, the catch clause, and what a synchronous        *)
(* stretch of the handler ends with.                                       *)
(***************************************************************************)
TextContent(t) == <<[type |-> "text", text |-> t]>>

\* { content: [...] }
Envelope(t) == [content |-> TextContent(t)]

\* { content: [...], isError: true }
ErrorEnvelope(t) == [content |-> TextContent(t), isError |-> TRUE]

HasIsError(env) == "isError" \in DOMAIN env

NoOutcome == [how |-> "none"]

Returned(env) == [how |-> "returned", envelope |-> env]

Thrown(e) == [how |-> "thrown", error |-> e]

\* faulty variant: structured protocol errors are rethrown to the caller
CatchClauseRethrowsMcp(error) ==
    IF error.mcp
    THEN Thrown(error)
    ELSE Returned(ErrorEnvelope(Plain("Operation failed: " \o
            (IF error.instanceofError THEN error.message ELSE "Unknown error occurred"))))

\* catch (error) { ... }, lines 984-993
CatchClause(error) ==
    Returned(ErrorEnvelope(Plain("Operation failed: " \o
        (IF error.instanceofError THEN error.message ELSE "Unknown error occurred"))))

NoCall == [api |-> "none", params |-> <<>>]

\* the handler suspends on "await this.jira.<api>(params)"
Await(api, params, uf) ==
    [next |-> "await", call |-> [api |-> api, params |-> params], uf |-> uf,
     outcome |-> NoOutcome, raised |-> NoError]

\* the handler returns an envelope from inside the try block
Return(env, uf) ==
    [next |-> "done", call |-> NoCall, uf |-> uf, outcome |-> Returned(env),
     raised |-> NoError]

\* an error is thrown inside the try block
Throw(e, uf) ==
    [next |-> "done", call |-> NoCall, uf |-> uf, outcome |-> CatchClause(e),
     raised |-> e]

\* process.env.JIRA_HOST
JIRA_HOST == "paddock.atlassian.net"

DEFAULT_PROJECT == [KEY |-> "CPG", ID |-> "10000", NAME |-> "Website MVP",
                    TYPE |-> "software",
                    ENTITY_ID |-> "e01e939e-8442-4967-835d-362886c653e3"]

DEFAULT_MANAGER == [EMAIL |-> "ghsstephens@gmail.com",
                    ACCOUNT_ID |-> "712020:dc572395-3fef-4ee3-a31c-2e1b288c72d6",
                    NAME |-> "George"]

BrowseUrl(key) == "https://" \o JIRA_HOST \o "/browse/" \o key

(***************************************************************************)
(* What the tracker client may answer.                                     *)
(***************************************************************************)
LinkTypesResponses ==
    { [issueLinkTypes |-> <<[id |-> "10000", name |-> "Blocks"]>>] }

IssueTypesResponses ==
    { <<>>,
      << [id |-> "10001", name |-> "Task", description |-> "A task", subtask |-> FALSE,
          self |-> "https://paddock.atlassian.net/rest/api/3/issuetype/10001"] >> }

SearchJiraResponses ==
    { [total |-> 0, issues |-> <<>>],
      [total |-> 1, issues |-> <<[key |-> "X-1"]>>] }

SearchUsersResponses ==
    { <<>>,
      << [accountId |-> "712020:bob", displayName |-> "Bob",
          emailAddress |-> "bob@example.com", active |-> TRUE] >> }

ListTransitionsResponses ==
    { [transitions |-> <<>>],
      [transitions |-> << [id |-> "11", name |-> "To Do"], [id |-> "31", name |-> "Done"] >>],
      [transitions |-> << [id |-> "41", name |-> "DONE"], [id |-> "31", name |-> "Done"] >>],
      [transitions |-> << [id |-> "21", name |-> "In Progress"],
                          [id |-> "51", name |-> "CLOSED"] >>] }

AddNewIssueResponses == { [id |-> "10042", key |-> "X-42"] }

\* calls whose resolved value the handler does not read
VoidResponses == { [done |-> TRUE] }

(***************************************************************************)
(* The cases of the switch, each as what the handler does from the request *)
(* up to its first await (or its end).                                     *)
(***************************************************************************)
\* case "list_link_types"
ListLinkTypesCase == Await("listIssueLinkTypes", <<>>, <<>>)

\* case "list_issue_types"
ListIssueTypesCase == Await("listIssueTypes", <<>>, <<>>)

\* Array.prototype.join(","), as ToString of an array does
RECURSIVE JoinComma(_)
JoinComma(a) ==
    IF a = <<>> THEN ""
    ELSE IF Len(a) = 1 THEN a[1]
    ELSE a[1] \o "," \o JoinComma(Tail(a))

\* `${v}`: ToString(v)
TemplateString(v) ==
    CASE v.t = "undefined" -> "undefined"
      [] v.t = "null" -> "null"
      [] v.t = "array" -> JoinComma(v.a)
      [] OTHER -> v.s

\* faulty variant: the filter is appended whether or not there is one
JqlOfAlwaysAnd(args) ==
    "project = " \o TemplateString(args.fields.projectKey) \o " AND "
        \o TemplateString(args.fields.jql)

\* the query of get_issues, lines 692-694
JqlOf(args) ==
    IF Truthy(args.fields.jql)
    THEN "project = " \o TemplateString(args.fields.projectKey) \o " AND "
            \o TemplateString(args.fields.jql)
    ELSE "project = " \o TemplateString(args.fields.projectKey)

SearchFields ==
    << "summary", "description", "status", "priority", "assignee", "issuetype",
       "parent", "subtasks" >>

\* case "get_issues"
GetIssuesCase(args) ==
    LET v == CheckArguments(args, validateGetIssuesArgs(args))
    IN  IF v.threw THEN Throw(v.error, <<>>)
        ELSE Await("searchJira",
                   <<JqlOf(args), [maxResults |-> 100, fields |-> SearchFields]>>, <<>>)

\* the success envelope of update_issue, lines 776-793
UpdateIssueResult(args) ==
    Envelope(JSONstringify(
        [message |-> "Issue updated successfully",
         issue |-> [key |-> args.fields.issueKey.s,
                    url |-> BrowseUrl(args.fields.issueKey.s)]]))

\* update_issue from "if (args.priority)" on, lines 766-793
UpdateFromPriority(args, uf) ==
    LET uf2 == IF Truthy(args.fields.priority)
               THEN uf @@ ("priority" :> [name |-> args.fields.priority])
               ELSE uf
    IN  IF DOMAIN uf2 # {}
        THEN Await("updateIssue", <<args.fields.issueKey.s, [fields |-> uf2]>>, uf2)
        ELSE Return(UpdateIssueResult(args), uf2)

\* update_issue from "if (args.status)" on, lines 753-756
UpdateFromStatus(args, uf) ==
    IF Truthy(args.fields.status)
    THEN Await("listTransitions", <<args.fields.issueKey.s>>, uf)
    ELSE UpdateFromPriority(args, uf)

\* update_issue from "if (args.assignee)" on, lines 743-748
UpdateFromAssignee(args, uf) ==
    IF Truthy(args.fields.assignee)
    THEN Await("searchUsers",
               <<[query |-> args.fields.assignee, includeActive |-> TRUE, maxResults |-> 1]>>,
               uf)
    ELSE UpdateFromStatus(args, uf)

\* case "update_issue", lines 720-742
UpdateIssueCase(args) ==
    LET v == CheckArguments(args, validateUpdateIssueArgs(args))
        uf1 == IF Truthy(args.fields.summary)
               THEN "summary" :> args.fields.summary
               ELSE <<>>
    IN  IF v.threw THEN Throw(v.error, <<>>)
        ELSE IF ~TruthyText(args.description) THEN UpdateFromAssignee(args, uf1)
        ELSE IF args.description.t # "string"
        THEN Throw(TypeError("text.split is not a function"), uf1)
        ELSE UpdateFromAssignee(args,
                uf1 @@ ("description" :> convertToADF(args.description.s)))

\* faulty variant: a user search without a match is an error, as in get_user
UpdateAfterSearchUsersThrows(args, uf, users) ==
    IF Len(users) > 0
    THEN UpdateFromStatus(args, uf @@ ("assignee" :> [accountId |-> users[1].accountId]))
    ELSE Throw(TypeError("User not found"), uf)

\* update_issue after "await this.jira.searchUsers", lines 749-752
UpdateAfterSearchUsers(args, uf, users) ==
    UpdateFromStatus(args,
        IF Len(users) > 0
        THEN uf @@ ("assignee" :> [accountId |-> users[1].accountId])
        ELSE uf)

\* transitions.transitions.find(t => t.name.toLowerCase() === args.status?.toLowerCase()):
\* the position of the first match, 0 when there is none
FindTransition(transitions, status) ==
    LET hits == { k \in DOMAIN transitions :
                    toLowerCase(transitions[k].name) = toLowerCase(status.s) }
    IN  IF hits = {} THEN 0 ELSE CHOOSE k \in hits : \A j \in hits : k <= j

\* faulty variant: a status that matches no transition is an error
UpdateAfterListTransitionsStrict(args, uf, response) ==
    LET k == FindTransition(response.transitions, args.fields.status)
    IN  IF k # 0
        THEN Await("transitionIssue",
                   <<args.fields.issueKey.s,
                     [transition |-> [id |-> response.transitions[k].id]]>>, uf)
        ELSE Throw(TypeError("No transition found"), uf)

\* faulty variant: the transition is made only when there are fields to update
UpdateAfterListTransitionsNeedsFields(args, uf, response) ==
    IF response.transitions # <<>> /\ args.fields.status.t # "string"
    THEN Throw(TypeError("args.status?.toLowerCase is not a function"), uf)
    ELSE LET k == FindTransition(response.transitions, args.fields.status)
         IN  IF k # 0 /\ DOMAIN uf # {}
             THEN Await("transitionIssue",
                        <<args.fields.issueKey.s,
                          [transition |-> [id |-> response.transitions[k].id]]>>, uf)
             ELSE UpdateFromPriority(args, uf)

\* update_issue after "await this.jira.listTransitions", lines 757-765
UpdateAfterListTransitions(args, uf, response) ==
    IF response.transitions # <<>> /\ args.fields.status.t # "string"
    THEN Throw(TypeError("args.status?.toLowerCase is not a function"), uf)
    ELSE LET k == FindTransition(response.transitions, args.fields.status)
         IN  IF k # 0
             THEN Await("transitionIssue",
                        <<args.fields.issueKey.s,
                          [transition |-> [id |-> response.transitions[k].id]]>>, uf)
             ELSE UpdateFromPriority(args, uf)

\* case "get_user", lines 796-815
GetUserCase(args) ==
    LET v == CheckArguments(args, validateGetUserArgs(args))
    IN  IF v.threw THEN Throw(v.error, <<>>)
        ELSE Await("searchUsers",
                   <<[query |-> args.fields.email, includeActive |-> TRUE, maxResults |-> 1]>>,
                   <<>>)

\* faulty variant: an empty search result is retried
GetUserAfterSearchUsersRetries(args, response) ==
    IF Len(response) = 0
    THEN Await("searchUsers",
               <<[query |-> args.fields.email, includeActive |-> TRUE, maxResults |-> 1]>>,
               <<>>)
    ELSE Return(Envelope(JSONstringify(
                    [accountId |-> response[1].accountId,
                     displayName |-> response[1].displayName,
                     emailAddress |-> response[1].emailAddress])), <<>>)

\* faulty variant: "no user found" is returned without the isError flag
GetUserAfterSearchUsersNoFlag(args, response) ==
    IF Len(response) = 0
    THEN Return(Envelope(Plain("No user found with email: "
                                  \o TemplateString(args.fields.email))), <<>>)
    ELSE Return(Envelope(JSONstringify(
                    [accountId |-> response[1].accountId,
                     displayName |-> response[1].displayName,
                     emailAddress |-> response[1].emailAddress])), <<>>)

\* get_user after "await this.jira.searchUsers", lines 817-845
GetUserAfterSearchUsers(args, response) ==
    IF Len(response) = 0
    THEN Return(ErrorEnvelope(Plain("No user found with email: "
                                       \o TemplateString(args.fields.email))), <<>>)
    ELSE Return(Envelope(JSONstringify(
                    [accountId |-> response[1].accountId,
                     displayName |-> response[1].displayName,
                     emailAddress |-> response[1].emailAddress])), <<>>)

\* a || b
OrElse(v, default) == IF Truthy(v) THEN v ELSE default

\* faulty variant: no default assignee is substituted
CreateIssueFieldsNoDefault(args) ==
    [project |-> [key |-> OrElse(args.fields.projectKey, Str(DEFAULT_PROJECT.KEY))],
     summary |-> args.fields.summary,
     issuetype |-> [name |-> args.fields.issueType],
     description |-> IF TruthyText(args.description)
                     THEN convertToADF(args.description.s)
                     ELSE Undef,
     assignee |-> [accountId |-> args.fields.assignee],
     labels |-> args.fields.labels,
     components |-> IF args.fields.components.t = "array"
                    THEN Arr([k \in DOMAIN args.fields.components.a |->
                                [name |-> args.fields.components.a[k]]])
                    ELSE Undef,
     priority |-> IF Truthy(args.fields.priority)
                  THEN [name |-> args.fields.priority]
                  ELSE Undef,
     parent |-> IF Truthy(args.fields.parent)
                THEN [key |-> args.fields.parent]
                ELSE Undef]

\* the fields object of create_issue, lines 862-878
CreateIssueFields(args) ==
    [project |-> [key |-> OrElse(args.fields.projectKey, Str(DEFAULT_PROJECT.KEY))],
     summary |-> args.fields.summary,
     issuetype |-> [name |-> args.fields.issueType],
     description |-> IF TruthyText(args.description)
                     THEN convertToADF(args.description.s)
                     ELSE Undef,
     assignee |-> [accountId |-> OrElse(args.fields.assignee, Str(DEFAULT_MANAGER.EMAIL))],
     labels |-> args.fields.labels,
     components |-> IF args.fields.components.t = "array"
                    THEN Arr([k \in DOMAIN args.fields.components.a |->
                                [name |-> args.fields.components.a[k]]])
                    ELSE Undef,
     priority |-> IF Truthy(args.fields.priority)
                  THEN [name |-> args.fields.priority]
                  ELSE Undef,
     parent |-> IF Truthy(args.fields.parent)
                THEN [key |-> args.fields.parent]
                ELSE Undef]

\* case "create_issue", lines 847-879
CreateIssueCase(args) ==
    LET v == CheckArguments(args, validateCreateIssueArgs(args))
    IN  IF v.threw THEN Throw(v.error, <<>>)
        ELSE IF TruthyText(args.description) /\ args.description.t # "string"
        THEN Throw(TypeError("text.split is not a function"), <<>>)
        ELSE IF args.fields.components.t \notin {"undefined", "null", "array"}
        THEN Throw(TypeError("args.components?.map is not a function"), <<>>)
        ELSE Await("addNewIssue", <<[fields |-> CreateIssueFields(args)]>>, <<>>)

\* create_issue after "await this.jira.addNewIssue", lines 881-899
CreateIssueAfterAddNewIssue(response) ==
    Return(Envelope(JSONstringify(
               [message |-> "Issue created successfully",
                issue |-> [id |-> response.id, key |-> response.key,
                           url |-> BrowseUrl(response.key)]])), <<>>)

\* case "delete_issue", lines 902-917
DeleteIssueCase(args) ==
    LET v == CheckArguments(args, validateDeleteIssueArgs(args))
    IN  IF v.threw THEN Throw(v.error, <<>>)
        ELSE Await("deleteIssue", <<args.fields.issueKey.s>>, <<>>)

\* delete_issue after "await this.jira.deleteIssue", lines 919-933
DeleteIssueAfterDeleteIssue(args) ==
    Return(Envelope(JSONstringify(
               [message |-> "Issue deleted successfully",
                issueKey |-> args.fields.issueKey.s])), <<>>)

\* case "create_issue_link", lines 936-955
CreateIssueLinkCase(args) ==
    LET v == CheckArguments(args, validateCreateIssueLinkArgs(args))
    IN  IF v.threw THEN Throw(v.error, <<>>)
        ELSE Await("issueLink",
                   <<[inwardIssue |-> [key |-> args.fields.inwardIssueKey.s],
                      outwardIssue |-> [key |-> args.fields.outwardIssueKey.s],
                      type |-> [name |-> args.fields.linkType.s]]>>, <<>>)

\* create_issue_link after "await this.jira.issueLink", lines 957-975
CreateIssueLinkAfterIssueLink(args) ==
    Return(Envelope(JSONstringify(
               [message |-> "Issue link created successfully",
                link |-> [inward |-> args.fields.inwardIssueKey.s,
                          outward |-> args.fields.outwardIssueKey.s,
                          type |-> args.fields.linkType.s]])), <<>>)

\* default: throw new McpError(ErrorCode.MethodNotFound, ...)
DefaultCase(name) == Throw(McpError(MethodNotFound, "Unknown tool: " \o name), <<>>)

\* response.map(type => ({ id, name, description, subtask }))
ProjectIssueTypes(response) ==
    [k \in DOMAIN response |->
        [id |-> response[k].id, name |-> response[k].name,
         description |-> response[k].description, subtask |-> response[k].subtask]]


(***************************************************************************)
(* The handler as a state machine.  An invocation runs in a slot n; the    *)
(* requests are delivered one at a time, each after the response to the    *)
(* one before.                                                             *)
(***************************************************************************)
Invs == 1..NumInv

SrvOff ==
    /\ pc = [n \in Invs |-> "idle"]
    /\ request = [n \in Invs |-> NoRequest]
    /\ pending = [n \in Invs |-> "none"]
    /\ calls = [n \in Invs |-> <<>>]
    /\ updateFields = [n \in Invs |-> <<>>]
    /\ outcome = [n \in Invs |-> NoOutcome]
    /\ raised = [n \in Invs |-> NoError]
    /\ replies = [n \in Invs |-> <<>>]

\* the transport delivers a request to an idle handler
CanReceive(n) == \A m \in Invs : pc[m] = "idle"

\* faulty variant: the update-fields map is one object shared by all invocations
ProceedShared(n, req, r) ==
    /\ request' = [request EXCEPT ![n] = req]
    /\ pc' = [pc EXCEPT ![n] = IF r.next = "await" THEN "awaiting" ELSE "done"]
    /\ pending' = [pending EXCEPT ![n] = IF r.next = "await" THEN r.call.api ELSE "none"]
    /\ calls' = [calls EXCEPT ![n] = IF r.next = "await" THEN Append(@, r.call) ELSE @]
    /\ updateFields' = [m \in Invs |-> r.uf]
    /\ outcome' = [outcome EXCEPT ![n] = r.outcome]
    /\ raised' = [raised EXCEPT ![n] = r.raised]
    /\ UNCHANGED adfvars

\* the state of slot n after a synchronous stretch that ends with r
Proceed(n, req, r) ==
    /\ request' = [request EXCEPT ![n] = req]
    /\ pc' = [pc EXCEPT ![n] = IF r.next = "await" THEN "awaiting" ELSE "done"]
    /\ pending' = [pending EXCEPT ![n] = IF r.next = "await" THEN r.call.api ELSE "none"]
    /\ calls' = [calls EXCEPT ![n] = IF r.next = "await" THEN Append(@, r.call) ELSE @]
    /\ updateFields' = [updateFields EXCEPT ![n] = r.uf]
    /\ outcome' = [outcome EXCEPT ![n] = r.outcome]
    /\ raised' = [raised EXCEPT ![n] = r.raised]
    /\ UNCHANGED adfvars

\* a request arrives: the handler runs from its entry
Start(n, req, r) == Proceed(n, req, r) /\ UNCHANGED replies

Resolved(v) == [ok |-> TRUE, value |-> v]

RejectedWith(e) == [ok |-> FALSE, error |-> e]

\* the awaited call settles: the handler runs on from the await
Resume(n, reply, r) ==
    /\ Proceed(n, request[n], r)
    /\ replies' = [replies EXCEPT ![n] = Append(@, reply)]

Req(name, args) == [name |-> name, arguments |-> args]

\* slot n is suspended on "await this.jira.<api>(...)" inside the case of tool `name`
Awaiting(n, name, api) ==
    /\ pc[n] = "awaiting"
    /\ pending[n] = api
    /\ request[n].name = name

\* faulty variant: a rejected call is made again
RejectedRetries(n, e) ==
    Resume(n, RejectedWith(e),
           Await(pending[n], calls[n][Len(calls[n])].params, updateFields[n]))

\* the awaited call rejects with e: control passes to the catch clause
Rejected(n, e) == Resume(n, RejectedWith(e), Throw(e, updateFields[n]))

ListLinkTypes(n) ==
    /\ CanReceive(n)
    /\ \E args \in BagsOf("list_link_types") :
          Start(n, Req("list_link_types", args), ListLinkTypesCase)

ListLinkTypesSettles(n) ==
    /\ Awaiting(n, "list_link_types", "listIssueLinkTypes")
    /\ \/ \E v \in LinkTypesResponses :
             Resume(n, Resolved(v), Return(Envelope(JSONstringify(v)), <<>>))
       \/ \E e \in ClientFailures : Rejected(n, e)

ListIssueTypes(n) ==
    /\ CanReceive(n)
    /\ \E args \in BagsOf("list_issue_types") :
          Start(n, Req("list_issue_types", args), ListIssueTypesCase)

ListIssueTypesSettles(n) ==
    /\ Awaiting(n, "list_issue_types", "listIssueTypes")
    /\ \/ \E v \in IssueTypesResponses :
             Resume(n, Resolved(v),
                     Return(Envelope(JSONstringify(ProjectIssueTypes(v))), <<>>))
       \/ \E e \in ClientFailures : Rejected(n, e)

GetIssues(n) ==
    /\ CanReceive(n)
    /\ \E args \in BagsOf("get_issues") :
          Start(n, Req("get_issues", args), GetIssuesCase(args))

GetIssuesSettles(n) ==
    /\ Awaiting(n, "get_issues", "searchJira")
    /\ \/ \E v \in SearchJiraResponses :
             Resume(n, Resolved(v), Return(Envelope(JSONstringify(v.issues)), <<>>))
       \/ \E e \in ClientFailures : Rejected(n, e)

UpdateIssue(n) ==
    /\ CanReceive(n)
    /\ \E args \in BagsOf("update_issue") :
          Start(n, Req("update_issue", args), UpdateIssueCase(args))

UpdateIssueSearchUsersSettles(n) ==
    /\ Awaiting(n, "update_issue", "searchUsers")
    /\ \/ \E v \in SearchUsersResponses :
             Resume(n, Resolved(v),
                     UpdateAfterSearchUsers(request[n].arguments, updateFields[n], v))
       \/ \E e \in ClientFailures : Rejected(n, e)

UpdateIssueListTransitionsSettles(n) ==
    /\ Awaiting(n, "update_issue", "listTransitions")
    /\ \/ \E v \in ListTransitionsResponses :
             Resume(n, Resolved(v),
                     UpdateAfterListTransitions(request[n].arguments, updateFields[n], v))
       \/ \E e \in ClientFailures : Rejected(n, e)

UpdateIssueTransitionIssueSettles(n) ==
    /\ Awaiting(n, "update_issue", "transitionIssue")
    /\ \/ \E v \in VoidResponses :
             Resume(n, Resolved(v),
                     UpdateFromPriority(request[n].arguments, updateFields[n]))
       \/ \E e \in ClientFailures : Rejected(n, e)

UpdateIssueUpdateIssueSettles(n) ==
    /\ Awaiting(n, "update_issue", "updateIssue")
    /\ \/ \E v \in VoidResponses :
             Resume(n, Resolved(v),
                     Return(UpdateIssueResult(request[n].arguments), updateFields[n]))
       \/ \E e \in ClientFailures : Rejected(n, e)

GetUser(n) ==
    /\ CanReceive(n)
    /\ \E args \in BagsOf("get_user") :
          Start(n, Req("get_user", args), GetUserCase(args))

GetUserSettles(n) ==
    /\ Awaiting(n, "get_user", "searchUsers")
    /\ \/ \E v \in SearchUsersResponses :
             Resume(n, Resolved(v), GetUserAfterSearchUsers(request[n].arguments, v))
       \/ \E e \in ClientFailures : Rejected(n, e)

CreateIssue(n) ==
    /\ CanReceive(n)
    /\ \E args \in BagsOf("create_issue") :
          Start(n, Req("create_issue", args), CreateIssueCase(args))

CreateIssueSettles(n) ==
    /\ Awaiting(n, "create_issue", "addNewIssue")
    /\ \/ \E v \in AddNewIssueResponses :
             Resume(n, Resolved(v), CreateIssueAfterAddNewIssue(v))
       \/ \E e \in ClientFailures : Rejected(n, e)

DeleteIssue(n) ==
    /\ CanReceive(n)
    /\ \E args \in BagsOf("delete_issue") :
          Start(n, Req("delete_issue", args), DeleteIssueCase(args))

DeleteIssueSettles(n) ==
    /\ Awaiting(n, "delete_issue", "deleteIssue")
    /\ \/ \E v \in VoidResponses :
             Resume(n, Resolved(v), DeleteIssueAfterDeleteIssue(request[n].arguments))
       \/ \E e \in ClientFailures : Rejected(n, e)

CreateIssueLink(n) ==
    /\ CanReceive(n)
    /\ \E args \in BagsOf("create_issue_link") :
          Start(n, Req("create_issue_link", args), CreateIssueLinkCase(args))

CreateIssueLinkSettles(n) ==
    /\ Awaiting(n, "create_issue_link", "issueLink")
    /\ \/ \E v \in VoidResponses :
             Resume(n, Resolved(v), CreateIssueLinkAfterIssueLink(request[n].arguments))
       \/ \E e \in ClientFailures : Rejected(n, e)

\* a name with no case label: the default case
UnknownTool(n) ==
    /\ CanReceive(n)
    /\ \E name \in RequestNames \ SwitchCases :
          \E args \in BagsOf(name) :
              Start(n, Req(name, args), DefaultCase(name))

\* the response is sent and the slot is free for the next request
Respond(n) ==
    /\ pc[n] = "done"
    /\ pc' = [pc EXCEPT ![n] = "idle"]
    /\ request' = [request EXCEPT ![n] = NoRequest]
    /\ pending' = [pending EXCEPT ![n] = "none"]
    /\ calls' = [calls EXCEPT ![n] = <<>>]
    /\ updateFields' = [updateFields EXCEPT ![n] = <<>>]
    /\ outcome' = [outcome EXCEPT ![n] = NoOutcome]
    /\ raised' = [raised EXCEPT ![n] = NoError]
    /\ replies' = [replies EXCEPT ![n] = <<>>]
    /\ UNCHANGED adfvars

Init == SrvOff /\ AdfOff

Next ==
    \/ \E n \in Invs : ListLinkTypes(n)
    \/ \E n \in Invs : ListLinkTypesSettles(n)
    \/ \E n \in Invs : ListIssueTypes(n)
    \/ \E n \in Invs : ListIssueTypesSettles(n)
    \/ \E n \in Invs : GetIssues(n)
    \/ \E n \in Invs : GetIssuesSettles(n)
    \/ \E n \in Invs : UpdateIssue(n)
    \/ \E n \in Invs : UpdateIssueSearchUsersSettles(n)
    \/ \E n \in Invs : UpdateIssueListTransitionsSettles(n)
    \/ \E n \in Invs : UpdateIssueTransitionIssueSettles(n)
    \/ \E n \in Invs : UpdateIssueUpdateIssueSettles(n)
    \/ \E n \in Invs : GetUser(n)
    \/ \E n \in Invs : GetUserSettles(n)
    \/ \E n \in Invs : CreateIssue(n)
    \/ \E n \in Invs : CreateIssueSettles(n)
    \/ \E n \in Invs : DeleteIssue(n)
    \/ \E n \in Invs : DeleteIssueSettles(n)
    \/ \E n \in Invs : CreateIssueLink(n)
    \/ \E n \in Invs : CreateIssueLinkSettles(n)
    \/ \E n \in Invs : UnknownTool(n)
    \/ \E n \in Invs : Respond(n)

Spec == Init /\ [][Next]_vars

(***************************************************************************)
(* Overlapping invocations.  The handler is an async function: the         *)
(* protocol layer may call it for a new request while an earlier           *)
(* invocation is suspended at an await, so invocations interleave at the   *)
(* tracker-client call boundaries.                                         *)
(***************************************************************************)
\* the update_issue bags tried with overlapping invocations
OverlapUpdateIssueBags ==
    { Bag("object",
          Override(NoFields, [issueKey |-> Str("X-1"), summary |-> Str("New title"),
                              assignee |-> Str("bob@example.com"), status |-> Str("done")]),
          UndefText),
      Bag("object",
          Override(NoFields, [issueKey |-> Str("X-2"), status |-> Str("Closed")]),
          UndefText) }

\* the get_user bags tried with overlapping invocations
OverlapGetUserBags ==
    { Bag("object", Override(NoFields, [email |-> Str("bob@example.com")]), UndefText) }

\* update_issue is invoked in a free slot, whatever the other slots are doing
UpdateIssueOverlapping(n) ==
    /\ pc[n] = "idle"
    /\ \E args \in OverlapUpdateIssueBags :
          Start(n, Req("update_issue", args), UpdateIssueCase(args))

\* get_user is invoked in a free slot, whatever the other slots are doing
GetUserOverlapping(n) ==
    /\ pc[n] = "idle"
    /\ \E args \in OverlapGetUserBags :
          Start(n, Req("get_user", args), GetUserCase(args))

NextOverlap ==
    \/ \E n \in Invs : UpdateIssueOverlapping(n)
    \/ \E n \in Invs : UpdateIssueSearchUsersSettles(n)
    \/ \E n \in Invs : UpdateIssueListTransitionsSettles(n)
    \/ \E n \in Invs : UpdateIssueTransitionIssueSettles(n)
    \/ \E n \in Invs : UpdateIssueUpdateIssueSettles(n)
    \/ \E n \in Invs : GetUserOverlapping(n)
    \/ \E n \in Invs : GetUserSettles(n)
    \/ \E n \in Invs : Respond(n)

SpecOverlap == Init /\ [][NextOverlap]_vars

(***************************************************************************)
(* The converter run on its own, on every input text of the bounds.        *)
(***************************************************************************)
InitADF == AdfStart /\ SrvOff

NextADF ==
    \/ BlankLine
    \/ BulletLine
    \/ OrderedLine
    \/ HeadingLine
    \/ ParagraphLine
    \/ AdfReturn

SpecADF == InitADF /\ [][NextADF]_vars

(***************************************************************************)
(* Vocabulary of the dispatcher's properties.                              *)
(***************************************************************************)
\* the tools that have a validator
ValidatedTools ==
    { "create_issue", "update_issue", "delete_issue", "create_issue_link",
      "get_user", "get_issues" }

\* number of calls of `api` in a sequence of calls
CountCalls(cs, api) == Cardinality({ k \in DOMAIN cs : cs[k].api = api })

\* the invocation in slot n has ended
Ended(n) == pc[n] = "done"

\* the invocation in slot n has ended with the success envelope (no isError)
Succeeded(n) ==
    /\ Ended(n)
    /\ outcome[n].how = "returned"
    /\ ~HasIsError(outcome[n].envelope)

\* the envelope {content:[{type:"text", text:"Operation failed: <message>"}], isError:true}
OperationFailed(message) ==
    [content |-> <<[type |-> "text", text |-> [plain |-> "Operation failed: " \o message]]>>,
     isError |-> TRUE]

\* the invocation in slot n went through the default case of the switch
TookUnknownToolPath(n) ==
    /\ raised[n].mcp
    /\ raised[n].code = MethodNotFound

\* C1: every name of the catalog is handled by a case of the dispatcher; a
\* list_fields invocation makes one fetch-all-fields call, returns its result
\* without isError when the call resolves, and never takes the unknown-tool
\* path.
C1_CatalogToolsHandled ==
    \A n \in Invs :
        (Ended(n) /\ request[n].name \in ListTools) =>
            /\ ~TookUnknownToolPath(n)
            /\ request[n].name = "list_fields" =>
                  /\ Len(calls[n]) = 1
                  /\ calls[n][1].api = "listFields"
                  /\ replies[n][1].ok => Succeeded(n)

\* C2: an invocation of a name that is in no catalog entry ends with a
\* method-not-found error raised to the caller, not with a returned envelope.
C2_UnknownToolRaises ==
    \A n \in Invs :
        (Ended(n) /\ request[n].name \notin ListTools) =>
            /\ outcome[n].how = "thrown"
            /\ outcome[n].error.code = MethodNotFound

\* C3: no invocation ends by a thrown error, and an invocation in which
\* validation or a tracker-client call raised a failure ends with the
\* envelope "Operation failed: <message>" with isError true.
C3_FailuresBecomeEnvelopes ==
    \A n \in Invs :
        /\ outcome[n].how # "thrown"
        /\ Ended(n) => outcome[n].how = "returned"
        /\ (Ended(n) /\ raised[n] # NoError) =>
              outcome[n].envelope =
                  OperationFailed(IF raised[n].instanceofError
                                  THEN raised[n].message
                                  ELSE "Unknown error occurred")

\* a tracker-client call of an invocation that had already made a call was
\* rejected, and the invocation has ended
C3_Witness ==
    \E n \in Invs :
        /\ Ended(n)
        /\ Len(calls[n]) >= 2
        /\ ~replies[n][Len(replies[n])].ok
        /\ raised[n].instanceofError
        /\ HasIsError(outcome[n].envelope)

\* the bag is missing, is not an object, or has a required field that is
\* absent, not a string, or the empty string
ArgsInvalid(name, args) ==
    \/ args.kind # "object"
    \/ \E k \in DOMAIN RequiredOf(name) :
          LET v == args.fields[RequiredOf(name)[k]]
          IN  v.t # "string" \/ v.s = ""

\* C4: an invocation of a validated tool with an invalid argument bag makes
\* no tracker-client call and ends with an error envelope.
C4_InvalidArgsMakeNoCall ==
    \A n \in Invs :
        (pc[n] # "idle" /\ request[n].name \in ValidatedTools
            /\ ArgsInvalid(request[n].name, request[n].arguments)) =>
            /\ calls[n] = <<>>
            /\ Ended(n)
            /\ outcome[n].how = "returned"
            /\ HasIsError(outcome[n].envelope)

\* create_issue was invoked with every required field right but the last,
\* which is the empty string, and has ended without a call
C4_Witness ==
    \E n \in Invs :
        /\ Ended(n)
        /\ request[n].name = "create_issue"
        /\ request[n].arguments.kind = "object"
        /\ request[n].arguments.fields.projectKey = Str("X")
        /\ request[n].arguments.fields.summary = Str("Title")
        /\ request[n].arguments.fields.issueType = Str("")
        /\ calls[n] = <<>>
        /\ HasIsError(outcome[n].envelope)

(***************************************************************************)
(* Vocabulary of the converter's properties: what the input lines are,     *)
(* stated on the lines alone.                                              *)
(***************************************************************************)
\* the line is empty or holds white space only
AllSpaces(line) == \A n \in 1..Len(line) : IsWhiteSpace(line[n])

\* "bullet" / "ordered" for a list-item line, "none" for every other line
ListKind(line) ==
    IF AllSpaces(line) THEN "none"
    ELSE IF IsBulletLine(line) THEN "bullet"
    ELSE IF IsOrderedLine(line) THEN "ordered"
    ELSE "none"

\* the text of a list-item line with its prefix stripped
ItemText(line) ==
    IF ListKind(line) = "bullet" THEN substring(trim(line), 2)
    ELSE substring(trim(line), DigitRun(trim(line)) + 2)

ListTypeOf(kind) == IF kind = "bullet" THEN "bulletList" ELSE "orderedList"

IsListNode(node) == node.type \in {"bulletList", "orderedList"}

\* the first lines (1-based) of the maximal runs of list-item lines of one kind
RunStarts ==
    { k \in 1..Len(lines) :
        /\ ListKind(lines[k]) # "none"
        /\ (k = 1 \/ ListKind(lines[k - 1]) # ListKind(lines[k])) }

\* the last line of the maximal run that starts at line k
RunEnd(k) ==
    CHOOSE m \in k..Len(lines) :
        /\ \A j \in k..m : ListKind(lines[j]) = ListKind(lines[k])
        /\ (m = Len(lines) \/ ListKind(lines[m + 1]) # ListKind(lines[k]))

\* the List node the run that starts at line k is to yield
RunNode(k) ==
    [type |-> ListTypeOf(ListKind(lines[k])),
     content |-> [j \in 1..(RunEnd(k) - k + 1) |->
                    ListItemNode(ItemText(lines[k + j - 1]))]]

\* the n-th run start, in line order
NthStart(n) ==
    CHOOSE k \in RunStarts : Cardinality({j \in RunStarts : j < k}) = n - 1

\* the List nodes of the document, in document order
ListNodes == SelectSeq(content, IsListNode)

\* C5: in the returned Document the List nodes are, in order, exactly the
\* maximal runs of consecutive list-item lines of one kind: one List node of
\* the run's kind per run, its items the run's item texts (prefix stripped) in
\* their original order.
C5_RunsBecomeLists ==
    adfpc = "returned" =>
        /\ Len(ListNodes) = Cardinality(RunStarts)
        /\ \A n \in 1..Len(ListNodes) : ListNodes[n] = RunNode(NthStart(n))

\* a run of at least two list-item lines has been converted, next to another run
C5_Witness ==
    /\ adfpc = "returned"
    /\ \E k \in RunStarts : RunEnd(k) > k
    /\ Cardinality(RunStarts) >= 2
    /\ Len(ListNodes) >= 2

\* C6: every List node holds ListItems only, of the lines recorded for it, and
\* between two lines that went into the same List node there is no blank line,
\* no list-item line of the other kind and no non-list line.
C6_SeparatedItemsApart ==
    adfpc = "returned" =>
        \A n \in DOMAIN content :
            IsListNode(content[n]) =>
                /\ Len(content[n].content) = Len(origin[n])
                /\ \A m \in DOMAIN origin[n] :
                     /\ content[n].content[m].type = "listItem"
                     /\ content[n].content[m] =
                            ListItemNode(ItemText(lines[origin[n][m] + 1]))
                     /\ content[n].type = ListTypeOf(ListKind(lines[origin[n][m] + 1]))
                /\ \A a, b \in DOMAIN origin[n] :
                     a < b =>
                        \A j \in (origin[n][a] + 1)..(origin[n][b] + 1) :
                            ListKind(lines[j]) = ListKind(lines[origin[n][a] + 1])

\* two list-item lines with a separator between them (a blank line, a non-list
\* line, or a change of kind) have been converted
C6_Witness ==
    /\ adfpc = "returned"
    /\ Len(lines) >= 2
    /\ ListKind(lines[1]) = "bullet"
    /\ \/ ListKind(lines[2]) = "ordered"
       \/ Len(lines) >= 3 /\ ListKind(lines[2]) = "none" /\ ListKind(lines[3]) = "bullet"
    /\ Len(ListNodes) = 2

\* the line (1-based k) is a non-list line whose trimmed text ends with ":"
IsColonLine(k) ==
    /\ ListKind(lines[k]) = "none"
    /\ endsWith(trim(lines[k]), <<":">>)

\* the line after line k is empty, white space only, or does not exist
NextIsBlank(k) == k = Len(lines) \/ AllSpaces(lines[k + 1])

\* C7: a non-list line whose trimmed text ends with ":" yields exactly one
\* node: a Heading of level 3 with the trimmed text when the next line is
\* blank or missing, and a Paragraph with the raw line otherwise.
C7_HeadingNeedsBlankNext ==
    adfpc = "returned" =>
        \A k \in 1..Len(lines) :
            IsColonLine(k) =>
                /\ Cardinality({n \in DOMAIN origin :
                                  \E m \in DOMAIN origin[n] : origin[n][m] = k - 1}) = 1
                /\ \E n \in DOMAIN content :
                     /\ origin[n] = <<k - 1>>
                     /\ content[n] =
                          IF NextIsBlank(k)
                          THEN [type |-> "heading",
                                attrs |-> [level |-> 3],
                                content |-> <<[type |-> "text", text |-> trim(lines[k])]>>]
                          ELSE [type |-> "paragraph",
                                content |-> <<[type |-> "text", text |-> lines[k]]>>]

\* a ":" line before a non-blank line and a ":" line before a blank line or
\* the end have both been converted, one of them with white space around it
C7_Witness ==
    /\ adfpc = "returned"
    /\ \E k \in 1..Len(lines) : IsColonLine(k) /\ ~NextIsBlank(k) /\ trim(lines[k]) # lines[k]
    /\ \E k \in 1..Len(lines) : IsColonLine(k) /\ NextIsBlank(k)

\* C8 as stated: no invocation makes more than two tracker-client calls.
C8_AtMostTwoCalls == \A n \in Invs : Len(calls[n]) <= 2

\* C8, amended: no invocation makes more than four tracker-client calls;
\* update_issue makes up to four (user search, transition lookup, transition,
\* field update) and every other tool at most one.
C8_AtMostFourCalls ==
    \A n \in Invs :
        /\ Len(calls[n]) <= 4
        /\ request[n].name # "update_issue" => Len(calls[n]) <= 1
        /\ request[n].name = "update_issue" =>
              \A api \in {"searchUsers", "listTransitions", "transitionIssue", "updateIssue"} :
                  CountCalls(calls[n], api) <= 1

\* an update_issue invocation has made four calls and succeeded
C8_Witness ==
    \E n \in Invs :
        /\ Succeeded(n)
        /\ request[n].name = "update_issue"
        /\ Len(calls[n]) = 4

\* a value is supplied: it is present and not empty
Supplied(v) == v.t \notin {"undefined", "null"} /\ ~(v.t = "string" /\ v.s = "")

\* names that differ in letter case only (the small sigma of "ας" is the
\* one written at the end of a word)
CaseClasses ==
    { {"done", "Done", "DONE"}, {"to do", "To Do"}, {"in progress", "In Progress"},
      {"closed", "Closed", "CLOSED"}, {"terminé", "Terminé", "TERMINÉ"},
      {"σ", "Σ"}, {"ας", "ΑΣ"}, {"ґ", "Ґ"} }

EqualIgnoringCase(x, y) == x = y \/ \E c \in CaseClasses : x \in c /\ y \in c

\* on the names above, and on a number and a key that are no names, the
\* comparison the handler makes between lower-case forms says "equal"
\* exactly for the names that differ in letter case only
LowerCaseComparisonIgnoresCase ==
    \A x, y \in UNION CaseClasses \cup {"5", "X-1"} :
        (toLowerCase(x) = toLowerCase(y)) <=> EqualIgnoringCase(x, y)

\* update_issue with a valid issueKey and, of the optional fields, status only
OnlyStatus(n) ==
    /\ request[n].name = "update_issue"
    /\ request[n].arguments.kind = "object"
    /\ ~ArgsInvalid("update_issue", request[n].arguments)
    /\ request[n].arguments.fields.status.t = "string"
    /\ Supplied(request[n].arguments.fields.status)
    /\ \A f \in {"summary", "assignee", "priority"} :
          request[n].arguments.fields[f] = Undef
    /\ request[n].arguments.description = UndefText

\* C9: update_issue with a valid issueKey and only status supplied makes no
\* field-update call and exactly one transition lookup; when the lookup
\* answers and no transition's name equals the status case-insensitively, no
\* transition call is made and the invocation ends with the success envelope.
\* Equality case aside is the equality of lower-case forms that the handler
\* tests, for names of Latin, Greek and Cyrillic letters too.
C9_StatusOnlyUpdate ==
    \A n \in Invs :
        (pc[n] # "idle" /\ OnlyStatus(n)) =>
            /\ CountCalls(calls[n], "updateIssue") = 0
            /\ CountCalls(calls[n], "listTransitions") = 1
            /\ calls[n][1].api = "listTransitions"
            /\ (Len(replies[n]) >= 1 /\ replies[n][1].ok
                  /\ \A k \in DOMAIN replies[n][1].value.transitions :
                        ~EqualIgnoringCase(replies[n][1].value.transitions[k].name,
                                           request[n].arguments.fields.status.s)) =>
                  /\ CountCalls(calls[n], "transitionIssue") = 0
                  /\ Succeeded(n)
                  /\ Len(calls[n]) = 1
                  /\ LowerCaseComparisonIgnoresCase

\* a status-only update has ended with the success envelope after its one
\* call, the lookup, answered with transitions none of which has the status
\* as its name, letter case aside
C9_Witness ==
    \E n \in Invs :
        /\ Ended(n)
        /\ OnlyStatus(n)
        /\ Len(calls[n]) = 1
        /\ calls[n][1].api = "listTransitions"
        /\ replies[n][1].ok
        /\ replies[n][1].value.transitions # <<>>
        /\ \A k \in DOMAIN replies[n][1].value.transitions :
              ~EqualIgnoringCase(replies[n][1].value.transitions[k].name,
                                 request[n].arguments.fields.status.s)
        /\ CountCalls(calls[n], "transitionIssue") = 0
        /\ Succeeded(n)

\* get_issues with a valid projectKey and a jql that is absent or a string
ValidGetIssues(n) ==
    /\ request[n].name = "get_issues"
    /\ ~ArgsInvalid("get_issues", request[n].arguments)
    /\ request[n].arguments.fields.jql.t \in {"undefined", "string"}

\* C10: get_issues with valid projectKey X makes a single search call, capped
\* at 100 results, whose query is "project = X AND <jql>" when a jql filter
\* is supplied and "project = X" when none is (an empty jql is no filter).
C10_GetIssuesQuery ==
    \A n \in Invs :
        (pc[n] # "idle" /\ ValidGetIssues(n)) =>
            LET X == request[n].arguments.fields.projectKey.s
                jql == request[n].arguments.fields.jql
            IN  /\ Len(calls[n]) = 1
                /\ calls[n][1].api = "searchJira"
                /\ calls[n][1].params[2].maxResults = 100
                /\ Supplied(jql) => calls[n][1].params[1] = "project = " \o X \o " AND " \o jql.s
                /\ ~Supplied(jql) => calls[n][1].params[1] = "project = " \o X
                /\ (X = "X" /\ jql = Str("status = Done")) =>
                      calls[n][1].params[1] = "project = X AND status = Done"
                /\ (X = "X" /\ jql = Undef) => calls[n][1].params[1] = "project = X"

\* both forms of the query have been sent: this one is the form with a filter
C10_Witness ==
    \E n \in Invs :
        /\ Ended(n)
        /\ ValidGetIssues(n)
        /\ request[n].arguments.fields.jql = Str("status = Done")
        /\ calls[n][1].params[1] = "project = X AND status = Done"
        /\ Succeeded(n)


\* get_user with a valid email
ValidGetUser(n) ==
    /\ request[n].name = "get_user"
    /\ ~ArgsInvalid("get_user", request[n].arguments)

\* C11: get_user with a valid email makes one user-search call; when the
\* search answers with no match the envelope has isError true and the text
\* "No user found with email: <email>"; when it answers with a match the
\* envelope has no isError and its body holds exactly accountId, displayName
\* and emailAddress of the first match.
C11_GetUserResult ==
    \A n \in Invs :
        (pc[n] # "idle" /\ ValidGetUser(n)) =>
            /\ Len(calls[n]) = 1
            /\ calls[n][1].api = "searchUsers"
            /\ calls[n][1].params[1].query = request[n].arguments.fields.email
            /\ (Ended(n) /\ replies[n][1].ok /\ replies[n][1].value = <<>>) =>
                  outcome[n] =
                      [how |-> "returned",
                       envelope |->
                          [content |-> <<[type |-> "text",
                                          text |-> [plain |-> "No user found with email: "
                                                      \o request[n].arguments.fields.email.s]]>>,
                           isError |-> TRUE]]
            /\ (Ended(n) /\ replies[n][1].ok /\ replies[n][1].value # <<>>) =>
                  /\ Succeeded(n)
                  /\ outcome[n].envelope.content =
                        <<[type |-> "text",
                           text |-> [json |->
                              [accountId |-> replies[n][1].value[1].accountId,
                               displayName |-> replies[n][1].value[1].displayName,
                               emailAddress |-> replies[n][1].value[1].emailAddress]]]>>
                  /\ DOMAIN outcome[n].envelope.content[1].text.json =
                        {"accountId", "displayName", "emailAddress"}

\* a user search of get_user has answered with no match
C11_Witness ==
    \E n \in Invs :
        /\ Ended(n)
        /\ ValidGetUser(n)
        /\ replies[n][1].ok
        /\ replies[n][1].value = <<>>
        /\ HasIsError(outcome[n].envelope)

\* create_issue with valid required fields and optional fields of the types
\* the catalog declares (a description that is absent or a string, components
\* that are absent or an array)
ValidCreateIssue(n) ==
    /\ request[n].name = "create_issue"
    /\ ~ArgsInvalid("create_issue", request[n].arguments)
    /\ request[n].arguments.description.t \in {"undefined", "string"}
    /\ request[n].arguments.fields.components.t \in {"undefined", "array"}

\* C12: create_issue with valid required fields makes exactly one creation
\* call; the assignee sent is the preconfigured default (DEFAULT_MANAGER.EMAIL)
\* when assignee is omitted or empty, and the supplied value otherwise.
C12_CreateIssueAssignee ==
    \A n \in Invs :
        (pc[n] # "idle" /\ ValidCreateIssue(n)) =>
            LET a == request[n].arguments.fields.assignee
            IN  /\ Len(calls[n]) = 1
                /\ calls[n][1].api = "addNewIssue"
                /\ ~Supplied(a) =>
                      calls[n][1].params[1].fields.assignee =
                          [accountId |-> [t |-> "string", s |-> "ghsstephens@gmail.com",
                                          a |-> <<>>]]
                /\ Supplied(a) =>
                      calls[n][1].params[1].fields.assignee = [accountId |-> a]

\* a create_issue invocation without an assignee has made its creation call
C12_Witness ==
    \E n \in Invs :
        /\ Succeeded(n)
        /\ ValidCreateIssue(n)
        /\ request[n].arguments.fields.assignee = Undef
        /\ Len(calls[n]) = 1


\* update_issue with a valid issueKey
ValidUpdateIssue(n) ==
    /\ request[n].name = "update_issue"
    /\ ~ArgsInvalid("update_issue", request[n].arguments)

\* the place of a tracker-client call in the order of update_issue
CallRank(api) ==
    CASE api = "searchUsers" -> 1
      [] api = "listTransitions" -> 2
      [] api = "transitionIssue" -> 3
      [] api = "updateIssue" -> 4
      [] OTHER -> 0

Called(n, api) == CountCalls(calls[n], api) > 0

\* the answer to the call `api` of slot n (the call has been made and has resolved)
AnswerTo(n, api) ==
    replies[n][CHOOSE k \in DOMAIN calls[n] : calls[n][k].api = api].value

\* some transition of the lookup's answer has the requested status as its name,
\* letter case aside
TransitionMatched(n) ==
    \E k \in DOMAIN AnswerTo(n, "listTransitions").transitions :
        EqualIgnoringCase(AnswerTo(n, "listTransitions").transitions[k].name,
                          request[n].arguments.fields.status.s)

\* the update-fields map of the invocation ends nonempty
FieldsToUpdate(n) ==
    \/ Supplied(request[n].arguments.fields.summary)
    \/ Supplied(request[n].arguments.fields.priority)
    \/ request[n].arguments.description.s # <<>>
    \/ Called(n, "searchUsers") /\ AnswerTo(n, "searchUsers") # <<>>

\* C13: the calls of an update_issue invocation are made in the order user
\* lookup, transition lookup, transition call, field update, each at most once
\* and each only after the one before has settled; in an invocation that ends
\* without a failure the user lookup is made exactly when assignee is
\* supplied, the transition lookup exactly when status is supplied, the
\* transition call exactly when a transition matched (whether or not there
\* are fields to update), and the field update exactly when the update-fields
\* map is nonempty. A transition matches when its name is the status, letter
\* case aside, which is what the handler's comparison of lower-case forms
\* decides, for names of Latin, Greek and Cyrillic letters too.
C13_UpdateIssueCallOrder ==
    \A n \in Invs :
        (pc[n] # "idle" /\ ValidUpdateIssue(n)) =>
            /\ \A j, k \in DOMAIN calls[n] :
                  j < k => /\ CallRank(calls[n][j].api) >= 1
                           /\ CallRank(calls[n][j].api) < CallRank(calls[n][k].api)
            /\ Len(replies[n]) = IF pc[n] = "awaiting" THEN Len(calls[n]) - 1 ELSE Len(calls[n])
            /\ (Ended(n) /\ raised[n] = NoError) =>
                  /\ Called(n, "searchUsers") <=> Supplied(request[n].arguments.fields.assignee)
                  /\ Called(n, "listTransitions") <=> Supplied(request[n].arguments.fields.status)
                  /\ Called(n, "transitionIssue") <=>
                        (Called(n, "listTransitions") /\ TransitionMatched(n))
                  /\ LowerCaseComparisonIgnoresCase
                  /\ Called(n, "updateIssue") <=> FieldsToUpdate(n)
                  /\ Called(n, "updateIssue") <=> DOMAIN updateFields[n] # {}

\* an update with a status only has made its transition call, with no field
\* to update, and has ended
C13_Witness ==
    \E n \in Invs :
        /\ Succeeded(n)
        /\ ValidUpdateIssue(n)
        /\ Called(n, "transitionIssue")
        /\ ~Called(n, "updateIssue")
        /\ DOMAIN updateFields[n] = {}


\* the nodes of the document that line k (1-based) went into
NodesOfLine(k) ==
    { n \in DOMAIN origin : \E m \in DOMAIN origin[n] : origin[n][m] = k - 1 }

\* C14: the rules are tried in the order blank, bullet, ordered, heading,
\* paragraph: a blank line yields no node, and a line whose trimmed text
\* starts with "- " or with digits, a period and a white space is emitted as
\* one list item of a list of its kind and as nothing else, also when it ends
\* with ":" and a blank line or the end of the text follows.
C14_FirstRuleWins ==
    adfpc = "returned" =>
        \A k \in 1..Len(lines) :
            /\ AllSpaces(lines[k]) => NodesOfLine(k) = {}
            /\ ListKind(lines[k]) # "none" =>
                  /\ Cardinality(NodesOfLine(k)) = 1
                  /\ \A n \in NodesOfLine(k) :
                        /\ content[n].type = ListTypeOf(ListKind(lines[k]))
                        /\ \E m \in DOMAIN origin[n] :
                              /\ origin[n][m] = k - 1
                              /\ m \in DOMAIN content[n].content
                              /\ content[n].content[m] =
                                    [type |-> "listItem",
                                     content |-> <<[type |-> "paragraph",
                                                    content |-> <<[type |-> "text",
                                                                   text |-> ItemText(lines[k])]>>]>>]
            /\ (~AllSpaces(lines[k]) /\ ListKind(lines[k]) = "none") =>
                  \A n \in NodesOfLine(k) : content[n].type \in {"heading", "paragraph"}

\* a bullet line and an ordered line that end with ":" and stand before a
\* blank line or the end have been converted
C14_Witness ==
    /\ adfpc = "returned"
    /\ \E k \in 1..Len(lines) :
          /\ ListKind(lines[k]) = "bullet"
          /\ endsWith(trim(lines[k]), <<":">>)
          /\ NextIsBlank(k)
    /\ \E k \in 1..Len(lines) :
          /\ ListKind(lines[k]) = "ordered"
          /\ endsWith(trim(lines[k]), <<":">>)
          /\ NextIsBlank(k)

\* C15: a line emitted as a Heading closes the open list: the Heading is a
\* top-level node of its own, and no list-item line after it went into a List
\* node that was opened before it.
C15_HeadingClosesList ==
    adfpc = "returned" =>
        \A h \in DOMAIN content :
            content[h].type = "heading" =>
                /\ Len(origin[h]) = 1
                /\ \A n \in DOMAIN content :
                      (n < h /\ IsListNode(content[n])) =>
                          \A m \in DOMAIN origin[n] : origin[n][m] < origin[h][1]

\* a list, then a heading, then a blank line, then a list item of the kind
\* of the first list have been converted
C15_Witness ==
    /\ adfpc = "returned"
    /\ Len(lines) = 4
    /\ ListKind(lines[1]) = "bullet"
    /\ IsColonLine(2)
    /\ AllSpaces(lines[3])
    /\ ListKind(lines[4]) = "bullet"
    /\ Len(content) = 3
    /\ content[2].type = "heading"


\* the bag is a non-null object (typeof "object": a plain object or an array)
NonNullObject(args) == args.kind \in {"object", "array"}

\* every field of the "required" list of the tool's catalog entry is a
\* non-empty string in the bag
RequiredFieldsGiven(name, args) ==
    \A k \in DOMAIN RequiredOf(name) :
        LET v == args.fields[RequiredOf(name)[k]]
        IN  v.t = "string" /\ v.s # ""

\* validation of the invocation in slot n failed: an invalid-params error was raised
ValidationFailed(n) ==
    /\ raised[n].mcp
    /\ raised[n].code = InvalidParams

\* C16: for each validated tool the argument bag passes validation exactly
\* when it is a non-null object and every field of the catalog's "required"
\* list is a non-empty string; the values of the other fields play no part.
C16_ValidationIffRequired ==
    \A n \in Invs :
        (pc[n] # "idle" /\ request[n].name \in ValidatedTools) =>
            /\ ~ValidationFailed(n) <=>
                  /\ NonNullObject(request[n].arguments)
                  /\ RequiredFieldsGiven(request[n].name, request[n].arguments)
            /\ ValidationFailed(n) => (Ended(n) /\ calls[n] = <<>>)

\* create_issue with its required fields right and a number for the optional
\* labels array and the empty string for the optional priority has passed
\* validation and made its call
C16_Witness ==
    /\ \E n \in Invs :
          /\ request[n].name = "create_issue"
          /\ RequiredFieldsGiven("create_issue", request[n].arguments)
          /\ request[n].arguments.fields.labels = Num("3")
          /\ request[n].arguments.fields.priority = Str("")
          /\ Len(calls[n]) = 1
          /\ ~ValidationFailed(n)


\* the message the catch clause reports for the error e
ReportedMessage(e) == IF e.instanceofError THEN e.message ELSE "Unknown error occurred"

\* C18: update_issue aborts without rollback.  When a tracker-client call of
\* an invocation is rejected, it is the last call of the invocation, no call
\* is made twice, the invocation ends with the envelope "Operation failed:
\* <message>" with isError true, and the calls that resolved before stay
\* resolved with nothing undone; so a rejected field update that follows a
\* resolved transition leaves the transition made.
C18_AbortWithoutRollback ==
    \A n \in Invs :
        (pc[n] # "idle" /\ request[n].name = "update_issue") =>
            /\ \A api \in {"searchUsers", "listTransitions", "transitionIssue", "updateIssue"} :
                  CountCalls(calls[n], api) <= 1
            /\ \A k \in DOMAIN replies[n] :
                  ~replies[n][k].ok =>
                      /\ k = Len(calls[n])
                      /\ \A j \in 1..(k - 1) : replies[n][j].ok
                      /\ Ended(n)
                      /\ raised[n] = replies[n][k].error
                      /\ outcome[n].how = "returned"
                      /\ outcome[n].envelope = OperationFailed(ReportedMessage(replies[n][k].error))
                      /\ (calls[n][k].api = "updateIssue"
                            /\ Supplied(request[n].arguments.fields.status)
                            /\ Called(n, "transitionIssue")) =>
                            /\ k >= 3
                            /\ calls[n][k - 1].api = "transitionIssue"
                            /\ replies[n][k - 1].ok

\* status and summary were supplied, the transition was made, and the field
\* update that followed was rejected: the caller got isError true
C18_Witness ==
    \E n \in Invs :
        /\ Ended(n)
        /\ request[n].name = "update_issue"
        /\ Supplied(request[n].arguments.fields.status)
        /\ Supplied(request[n].arguments.fields.summary)
        /\ Len(calls[n]) = 3
        /\ calls[n][2].api = "transitionIssue"
        /\ replies[n][2].ok
        /\ calls[n][3].api = "updateIssue"
        /\ ~replies[n][3].ok
        /\ HasIsError(outcome[n].envelope)

\* update_issue with a valid issueKey, assignee supplied, and values of the
\* declared types for description and status
AssigneeUpdate(n) ==
    /\ ValidUpdateIssue(n)
    /\ Supplied(request[n].arguments.fields.assignee)
    /\ request[n].arguments.description.t \in {"undefined", "string"}
    /\ request[n].arguments.fields.status.t \in {"undefined", "string"}

\* of the fields of update_issue, assignee alone is supplied
OnlyAssignee(n) ==
    /\ ~Supplied(request[n].arguments.fields.summary)
    /\ ~Supplied(request[n].arguments.fields.status)
    /\ ~Supplied(request[n].arguments.fields.priority)
    /\ request[n].arguments.description.s = <<>>

\* C19: update_issue with assignee supplied makes exactly one user search,
\* its first call, for one result.  When the search finds no user the
\* update-fields map gets no assignee entry and no error is raised by it: an
\* invocation whose calls all resolved ends with the success envelope, and
\* with no field update at all when assignee was the only field supplied.
C19_AssigneeNotFound ==
    \A n \in Invs :
        (pc[n] # "idle" /\ AssigneeUpdate(n)) =>
            /\ CountCalls(calls[n], "searchUsers") = 1
            /\ calls[n][1].api = "searchUsers"
            /\ calls[n][1].params[1].query = request[n].arguments.fields.assignee
            /\ calls[n][1].params[1].maxResults = 1
            /\ (Len(replies[n]) >= 1 /\ replies[n][1].ok /\ replies[n][1].value = <<>>) =>
                  /\ "assignee" \notin DOMAIN updateFields[n]
                  /\ (\A k \in DOMAIN replies[n] : replies[n][k].ok) => raised[n] = NoError
                  /\ (Ended(n) /\ \A k \in DOMAIN replies[n] : replies[n][k].ok) =>
                        /\ Succeeded(n)
                        /\ outcome[n].envelope = UpdateIssueResult(request[n].arguments)
                  /\ OnlyAssignee(n) =>
                        /\ Ended(n)
                        /\ Succeeded(n)
                        /\ Len(calls[n]) = 1
                        /\ DOMAIN updateFields[n] = {}
            /\ (Len(replies[n]) >= 1 /\ replies[n][1].ok /\ replies[n][1].value # <<>>) =>
                  /\ "assignee" \in DOMAIN updateFields[n]
                  /\ updateFields[n]["assignee"] = [accountId |-> replies[n][1].value[1].accountId]

\* assignee alone was supplied, the search found no user, and the invocation
\* has ended with the success envelope after that one call
C19_Witness ==
    \E n \in Invs :
        /\ Succeeded(n)
        /\ AssigneeUpdate(n)
        /\ OnlyAssignee(n)
        /\ Len(calls[n]) = 1
        /\ replies[n] = <<Resolved(<<>>)>>


\* the list items of the document: (node, position) pairs
ListItemsOfDoc ==
    { p \in (DOMAIN content) \X (1..Len(lines)) :
        /\ IsListNode(content[p[1]])
        /\ p[2] \in DOMAIN content[p[1]].content }

ListItemLines == { k \in 1..Len(lines) : ListKind(lines[k]) # "none" }

NonBlankLines == { k \in 1..Len(lines) : ~AllSpaces(lines[k]) }

\* C20: the document built from any text has no empty List node, as many
\* ListItems over all its List nodes as the text has list-item lines, no node
\* that a blank line went into, and no more top-level nodes than the text
\* has non-blank lines.
C20_DocumentCounts ==
    adfpc = "returned" =>
        /\ \A n \in DOMAIN content :
              IsListNode(content[n]) =>
                  /\ Len(content[n].content) >= 1
                  /\ \A m \in DOMAIN content[n].content :
                        content[n].content[m].type = "listItem"
        /\ Cardinality(ListItemsOfDoc) = Cardinality(ListItemLines)
        /\ \A k \in 1..Len(lines) : AllSpaces(lines[k]) => NodesOfLine(k) = {}
        /\ Len(content) <= Cardinality(NonBlankLines)
        /\ Len(content) + Cardinality(ListItemsOfDoc)
              = Cardinality(NonBlankLines) + Cardinality({ n \in DOMAIN content : IsListNode(content[n]) })

\* a text with blank lines, list-item lines of both kinds and another line
\* has been converted
C20_Witness ==
    /\ adfpc = "returned"
    /\ \E k \in 1..Len(lines) : AllSpaces(lines[k])
    /\ \E k \in ListItemLines : ListKind(lines[k]) = "bullet"
    /\ \E k \in ListItemLines : ListKind(lines[k]) = "ordered"
    /\ NonBlankLines \ ListItemLines # {}
    /\ Len(content) >= 3


\* what the handler does with the request up to its first await or its end
CaseOf(req) ==
    CASE req.name = "list_link_types" -> ListLinkTypesCase
      [] req.name = "list_issue_types" -> ListIssueTypesCase
      [] req.name = "get_issues" -> GetIssuesCase(req.arguments)
      [] req.name = "update_issue" -> UpdateIssueCase(req.arguments)
      [] req.name = "get_user" -> GetUserCase(req.arguments)
      [] req.name = "create_issue" -> CreateIssueCase(req.arguments)
      [] req.name = "delete_issue" -> DeleteIssueCase(req.arguments)
      [] req.name = "create_issue_link" -> CreateIssueLinkCase(req.arguments)
      [] OTHER -> DefaultCase(req.name)

\* what the handler does when its call `api` resolves with v
AfterCall(req, api, uf, v) ==
    CASE req.name = "list_link_types" -> Return(Envelope(JSONstringify(v)), <<>>)
      [] req.name = "list_issue_types" ->
            Return(Envelope(JSONstringify(ProjectIssueTypes(v))), <<>>)
      [] req.name = "get_issues" -> Return(Envelope(JSONstringify(v.issues)), <<>>)
      [] req.name = "update_issue" /\ api = "searchUsers" ->
            UpdateAfterSearchUsers(req.arguments, uf, v)
      [] req.name = "update_issue" /\ api = "listTransitions" ->
            UpdateAfterListTransitions(req.arguments, uf, v)
      [] req.name = "update_issue" /\ api = "transitionIssue" ->
            UpdateFromPriority(req.arguments, uf)
      [] req.name = "update_issue" /\ api = "updateIssue" ->
            Return(UpdateIssueResult(req.arguments), uf)
      [] req.name = "get_user" -> GetUserAfterSearchUsers(req.arguments, v)
      [] req.name = "create_issue" -> CreateIssueAfterAddNewIssue(v)
      [] req.name = "delete_issue" -> DeleteIssueAfterDeleteIssue(req.arguments)
      [] req.name = "create_issue_link" -> CreateIssueLinkAfterIssueLink(req.arguments)

\* the invocation of req run alone, its calls answered by rs in turn: the
\* calls it has made, its update-fields map and its outcome
RECURSIVE RunFrom(_, _, _, _, _)
RunFrom(req, r, rs, k, cs) ==
    IF r.next # "await"
    THEN [calls |-> cs, updateFields |-> r.uf, outcome |-> r.outcome, ended |-> TRUE]
    ELSE IF k > Len(rs)
    THEN [calls |-> Append(cs, r.call), updateFields |-> r.uf, outcome |-> NoOutcome,
          ended |-> FALSE]
    ELSE RunFrom(req,
                 IF rs[k].ok THEN AfterCall(req, r.call.api, r.uf, rs[k].value)
                 ELSE Throw(rs[k].error, r.uf),
                 rs, k + 1, Append(cs, r.call))

RunAlone(req, rs) == RunFrom(req, CaseOf(req), rs, 1, <<>>)

SameMap(a, b) == DOMAIN a = DOMAIN b /\ \A x \in DOMAIN a : a[x] = b[x]

SameCalls(a, b) ==
    /\ Len(a) = Len(b)
    /\ \A k \in DOMAIN a :
          /\ a[k].api = b[k].api
          /\ Len(a[k].params) = Len(b[k].params)
          /\ a[k].params = b[k].params

\* C17: invocations share no mutable state.  However invocations interleave
\* at the tracker-client call boundaries, each one's calls, update-fields map
\* and envelope are those of the same request run alone with the same answers
\* to its calls.
C17_NoSharedState ==
    \A n \in Invs :
        pc[n] # "idle" =>
            LET alone == RunAlone(request[n], replies[n])
            IN  /\ alone.ended = Ended(n)
                /\ SameCalls(calls[n], alone.calls)
                /\ SameMap(updateFields[n], alone.updateFields)
                /\ outcome[n].how = alone.outcome.how
                /\ outcome[n] = alone.outcome

\* two update_issue invocations with different update-fields maps are both
\* suspended after their first call settled, and one of them was invoked
\* while the other was suspended
C17_Witness ==
    \E n, m \in Invs :
        /\ n # m
        /\ pc[n] = "awaiting" /\ pc[m] = "awaiting"
        /\ request[n].name = "update_issue" /\ request[m].name = "update_issue"
        /\ Len(replies[n]) >= 1 /\ Len(replies[m]) >= 1
        /\ DOMAIN updateFields[n] # DOMAIN updateFields[m]
        /\ pending[n] = "updateIssue"
        /\ pending[m] = "transitionIssue"

====
